---- MODULE Spec2Model ----
(***************************************************************************)
(* A model of src/src/firecracker-runner.ts: the sandbox lifecycle of      *)
(* runTask (admission, ID allocation, TAP device, rootfs staging,          *)
(* hypervisor start, boot, readiness, execution, write-back, teardown),    *)
(* killVM, cleanupAll and getActiveVMs, and the mount list that            *)
(* runContainerAgent builds for runTask.                                   *)
(*                                                                         *)
(* Spec is the running process.  FairSpec adds the fairness of the         *)
(* JavaScript thread.  ApiSpec applies getActiveVMs, killVM and cleanupAll *)
(* to live maps with registered sandboxes.  OrchSpec is runContainerAgent  *)
(* up to its call of runTask.  FaultSpec is one call of runTask on a host  *)
(* that refuses the removal of some kinds of resource.  AgentSpec is       *)
(* runContainerAgent from the moment the promise of runTask settles.       *)
(*                                                                         *)
(* Scheduling.  The module runs on one JavaScript thread.  Every external  *)
(* command is issued with execSync, which blocks that thread, and the only *)
(* await of runTask is the timer of the admission loop (line 492).  The    *)
(* variable cur names the invocation that holds the thread; an invocation  *)
(* gives it up only at a label in Yields.  Other OS processes (the         *)
(* hypervisor creating its socket) run concurrently with the thread.       *)
(*                                                                         *)
(* Host commands.  A command that creates something may fail.  A command   *)
(* that removes something removes it when it is there and fails (the       *)
(* failure being swallowed by the code) when it is not, or when the host   *)
(* refuses the removal of that kind of resource (host.stuck, empty except  *)
(* in FaultSpec).                                                          *)
(***************************************************************************)
EXTENDS Integers, Sequences, FiniteSets, TLC

\* ---------------------------------------------------------------- bounds
NumProcs == 2
MaxCalls == 3
MaxClock == 2

Procs == 1..NumProcs
Groups == {"main", "family"}
None == 0 - 1

\* ------------------------------------------------------ program constants
MAX_VM_ID == 253
SOCKET_DEADLINE_MS == 5000
SOCKET_POLL_MS == 100
SSH_BOOT_TIMEOUT_MS == 30000
SSH_POLL_INTERVAL_MS == 500
SSH_PROBE_TIMEOUT_MS == 5000
BOOT_CALLS == 5

\* The counter values the process is started from in this model: a fresh
\* process, and a process in which MAX_VM_ID - 2 invocations have returned
\* (each invocation advances the counter by one and leaves the map empty).
StartIds == {1, MAX_VM_ID - 1}

\* ------------------------------------------------------------ mounts
MountRO == [hostPath |-> "/groups/global", guestPath |-> "/workspace/global", readOnly |-> TRUE]
MountRW == [hostPath |-> "/groups/g", guestPath |-> "/workspace/group", readOnly |-> FALSE]
MountSrc == [hostPath |-> "/tmp/src", guestPath |-> "/workspace", readOnly |-> FALSE]
MountLists == {<< >>, <<MountRO, MountRW, MountSrc>>}

HostPaths == {MountRO.hostPath, MountRW.hostPath, MountSrc.hostPath}

\* What a directory holds, seen through one file of it: the directory is
\* missing, is there without the file, or holds the file as staged from the
\* host ("v1") or as the task wrote it ("v2").
DirStates == {"missing", "empty", "v1", "v2"}

\* The host directories when the process starts: /tmp/src does not exist.
HostFsAtStart ==
  [h \in HostPaths |-> IF h = MountSrc.hostPath THEN "missing" ELSE "v1"]

\* A recursive copy of the contents of src into dst (cp -a src/. dst/,
\* scp -r src/. dst/): dst is created when it is missing, the files of src
\* replace those of dst, and a file that only dst has stays.
CopyInto(dst, src) ==
  CASE src = "missing" -> dst
    [] src = "empty" -> IF dst = "missing" THEN "empty" ELSE dst
    [] OTHER -> src

\* ------------------------------------------------------------ names
\* The names the code derives from a sandbox ID.
TapName(vmId) == <<"tap", vmId>>
RootfsPath(vmId) == <<"/tmp/nanoclaw-vm-", vmId, ".ext4">>
MountPoint(vmId) == <<"/tmp/nanoclaw-mount-", vmId>>
SocketPath(vmId) == <<"/tmp/nanoclaw-fc-", vmId, ".socket">>
IpOf(vmId) == <<172, 16, 0, vmId + 1>>

\* vmId.toString(16): the hexadecimal digits of a number, most significant
\* first.
RECURSIVE ToHex(_)
ToHex(n) == IF n < 16 THEN <<n>> ELSE ToHex(n \div 16) \o <<n % 16>>

\* padStart(2, '0')
PadStart2(digits) == IF Len(digits) < 2 THEN <<0>> \o digits ELSE digits

\* generateMac (lines 162-165)
GenerateMacLastDigit(vmId) == <<"AA:FC:00:00:00:", <<0, vmId % 16>>>>

GenerateMac(vmId) == <<"AA:FC:00:00:00:", PadStart2(ToHex(vmId))>>
BRIDGE_IP == <<172, 16, 0, 1>>

\* ------------------------------------------------------------ state
VARIABLES
  nextVmId,    \* let nextVmId
  activeVMs,   \* const activeVMs: Map<string, MicroVM>, in insertion order
  pc,          \* per invocation slot: the next statement of runTask
  frame,       \* per invocation slot: arguments and locals of runTask
  cur,         \* the invocation holding the JavaScript thread, or None
  host,        \* host OS: TAP devices, files, hypervisor processes and their
               \* started guests, loop mounts, scratch directories
  procKilled,  \* ChildProcess objects whose .killed is true
  hist,        \* per invocation slot: what it allocated, released and did
  ret,         \* the settlement of the runTask promise that settled last step
  obs,         \* what the last killVM / cleanupAll / getActiveVMs call saw
  calls,       \* runTask invocations so far
  issued,      \* sandbox IDs returned by allocateVm so far
  hostFs,      \* host OS: the contents of the directories named by mounts
  clock,       \* Date.now()
  orch         \* runContainerAgent: its arguments and the mount list it built

vars == <<nextVmId, activeVMs, pc, frame, cur, host, procKilled,
          hist, ret, obs, calls, issued, hostFs, clock, orch>>

NoVm == [null |-> TRUE]
NoResult == [null |-> TRUE]
NoRet == [kind |-> "none"]
NoObs == [op |-> "none"]
NoOrch == [stage |-> "none"]
NullStatus == 0 - 1

Kinds == {"process", "tap", "rootfs", "socket"}

EmptyFrame ==
  [groupId |-> "", mounts |-> << >>, vmId |-> 0, ip |-> << >>, vm |-> NoVm,
   elapsed |-> 0, idx |-> 0, thrown |-> "", stdout |-> << >>,
   exitCode |-> 0, filesChanged |-> << >>, result |-> NoResult,
   startTime |-> 0, staged |-> << >>, guest |-> << >>]

EmptyHist ==
  [alloc |-> {}, rel |-> [k \in Kinds |-> 0], log |-> << >>]

\* stuck names the kinds of resource whose removal command the host refuses
\* (ip link delete or unlink failing on a resource that is there).
EmptyHost ==
  [taps |-> {}, files |-> {}, procs |-> {}, guests |-> {}, loops |-> {},
   dirs |-> {}, stuck |-> {}]

\* ------------------------------------------------------------ the live map
Has(m, g) == \E i \in 1..Len(m) : m[i].groupId = g

Get(m, g) == m[CHOOSE i \in 1..Len(m) : m[i].groupId = g]

MapSet(m, g, vm) ==
  IF Has(m, g)
    THEN [i \in 1..Len(m) |-> IF m[i].groupId = g THEN vm ELSE m[i]]
    ELSE Append(m, vm)

IsOther(e, g) == e.groupId # g

MapDelete(m, g) == SelectSeq(m, LAMBDA e : IsOther(e, g))

\* ------------------------------------------------------------ scheduling
\* The labels at which runTask is suspended and other JavaScript may run.
YieldsAwaitedExec(l) ==
  l \in {"wait", "tap_add", "tap_up", "tap_master", "rootfs_cp", "rootfs_mount",
         "rootfs_inject", "rootfs_umount", "fc_poll", "boot", "ssh_probe",
         "upload", "exec", "changed", "sync", "cl_tap", "pc_tap"}

YieldsInTeardown(l) == l \in {"wait", "cl_tap"}

Yields(l) == l = "wait"

Runs(p) == cur = p \/ (cur = None /\ pc[p] # "idle" /\ Yields(pc[p]))

Goto(p, l) ==
  /\ pc' = [pc EXCEPT ![p] = l]
  /\ cur' = IF Yields(l) THEN None ELSE p

Logged(p, step) == [hist EXCEPT ![p].log = Append(@, step)]

Quiet == ret' = NoRet /\ obs' = NoObs

\* The invocations whose sandbox has this ID, and the note of a release
\* command run on one of that sandbox's resources.
OwnersOf(vmId) == {q \in Procs : pc[q] # "idle" /\ frame[q].vmId = vmId}

Released(hs, vmId, kind) ==
  [q \in Procs |-> IF q \in OwnersOf(vmId)
                     THEN [hs[q] EXCEPT !.rel[kind] = @ + 1,
                                        !.log = Append(@, <<"release", kind>>)]
                     ELSE hs[q]]

\* ------------------------------------------------------------ Init
Init ==
  /\ nextVmId \in StartIds
  /\ activeVMs = << >>
  /\ pc = [p \in Procs |-> "idle"]
  /\ frame = [p \in Procs |-> EmptyFrame]
  /\ cur = None
  /\ host = EmptyHost
  /\ procKilled = {}
  /\ hist = [p \in Procs |-> EmptyHist]
  /\ ret = NoRet
  /\ obs = NoObs
  /\ calls = 0
  /\ issued = << >>
  /\ hostFs = HostFsAtStart
  /\ clock = 0
  /\ orch = NoOrch

\* ------------------------------------------------------------ runTask
\* runTask is called (line 478-485): arguments bound, startTime taken.
Call(p, g, ms) ==
  /\ cur = None
  /\ pc[p] = "idle"
  /\ calls < MaxCalls
  /\ calls' = calls + 1
  /\ frame' = [frame EXCEPT ![p] = [EmptyFrame EXCEPT !.groupId = g, !.mounts = ms,
                                                        !.startTime = clock]]
  /\ hist' = [hist EXCEPT ![p] = EmptyHist]
  /\ pc' = [pc EXCEPT ![p] = "admit"]
  /\ cur' = p
  /\ Quiet
  /\ UNCHANGED <<nextVmId, activeVMs, host, procKilled, issued, hostFs, clock, orch>>

\* Lines 487-494: the admission check, and each turn of the polling loop
\* after its one-second timer has fired.
Admit(p) ==
  /\ pc[p] \in {"admit", "wait"}
  /\ Runs(p)
  /\ IF Has(activeVMs, frame[p].groupId)
       THEN Goto(p, "wait")
       ELSE /\ pc' = [pc EXCEPT ![p] = "alloc"]
            /\ cur' = p
  /\ Quiet
  /\ UNCHANGED <<nextVmId, activeVMs, frame, host, procKilled, hist,
                 calls, issued, hostFs, clock, orch>>

\* allocateVm (lines 153-160): post-increment, then the capacity check.
AllocFailsNoCheck(vmId) == FALSE

AllocFailsLate(vmId) == vmId > MAX_VM_ID + 1

AllocFails(vmId) == vmId > MAX_VM_ID

\* Line 496: allocateVm is called outside the try block, so the capacity
\* error leaves runTask as a rejection.
Allocate(p) ==
  /\ pc[p] = "alloc"
  /\ Runs(p)
  /\ nextVmId' = nextVmId + 1
  /\ obs' = NoObs
  /\ IF AllocFails(nextVmId)
       THEN /\ ret' = [kind |-> "rejected", proc |-> p,
                       groupId |-> frame[p].groupId, vmId |-> 0,
                       error |-> "[FC] Maximum VM count exceeded (253 concurrent VMs)",
                       hist |-> hist[p]]
            /\ pc' = [pc EXCEPT ![p] = "idle"]
            /\ cur' = None
            /\ UNCHANGED <<frame, hist, issued, hostFs, clock, orch>>
       ELSE /\ frame' = [frame EXCEPT ![p].vmId = nextVmId,
                                      ![p].ip = IpOf(nextVmId)]
            /\ issued' = Append(issued, nextVmId)
            /\ hist' = Logged(p, <<"allocateVm">>)
            /\ Goto(p, "tap_add")
            /\ ret' = NoRet
  /\ UNCHANGED <<activeVMs, host, procKilled, calls, hostFs, clock, orch>>

\* A statement inside the try block throws: control goes to the catch clause.
Throw(p, msg) ==
  /\ frame' = [frame EXCEPT ![p].thrown = msg]
  /\ pc' = [pc EXCEPT ![p] = "catch"]
  /\ cur' = p

\* createTapDevice (lines 167-178), first command: ip tuntap add.
TapAdd(p) ==
  /\ pc[p] = "tap_add"
  /\ Runs(p)
  /\ Quiet
  /\ \E ok \in BOOLEAN :
       IF ok /\ TapName(frame[p].vmId) \notin host.taps
         THEN /\ host' = [host EXCEPT !.taps = @ \cup {TapName(frame[p].vmId)}]
              /\ hist' = [Logged(p, <<"createTapDevice">>) EXCEPT ![p].alloc = @ \cup {"tap"}]
              /\ Goto(p, "tap_up")
              /\ UNCHANGED frame
         ELSE /\ Throw(p, "[FC] Failed to create TAP device")
              /\ hist' = Logged(p, <<"createTapDevice">>)
              /\ UNCHANGED host
  /\ UNCHANGED <<nextVmId, activeVMs, procKilled, calls, issued, hostFs, clock, orch>>

\* createTapDevice, second and third command: bring up, attach to the bridge.
TapConfigure(p) ==
  /\ pc[p] \in {"tap_up", "tap_master"}
  /\ Runs(p)
  /\ Quiet
  /\ hist' = Logged(p, <<"tap", IF pc[p] = "tap_up" THEN "up" ELSE "master">>)
  /\ \E ok \in BOOLEAN :
       IF ok
         THEN /\ Goto(p, IF pc[p] = "tap_up" THEN "tap_master" ELSE "rootfs_cp")
              /\ UNCHANGED frame
         ELSE Throw(p, "[FC] Failed to create TAP device")
  /\ UNCHANGED <<nextVmId, activeVMs, host, procKilled, calls, issued, hostFs, clock, orch>>

\* prepareRootfs (lines 195-199): copy the base image to the private path.
\* A failed copy may leave a partial image behind.
RootfsCopy(p) ==
  /\ pc[p] = "rootfs_cp"
  /\ Runs(p)
  /\ Quiet
  /\ \E out \in {"ok", "failed", "partial"} :
       /\ host' = IF out = "failed" THEN host
                  ELSE [host EXCEPT !.files = @ \cup {RootfsPath(frame[p].vmId)}]
       /\ hist' = IF out = "failed" THEN Logged(p, <<"prepareRootfs">>)
                  ELSE [Logged(p, <<"prepareRootfs">>) EXCEPT ![p].alloc = @ \cup {"rootfs"}]
       /\ IF out = "ok"
            THEN Goto(p, "rootfs_mount") /\ UNCHANGED frame
            ELSE Throw(p, "Command failed: cp")
  /\ UNCHANGED <<nextVmId, activeVMs, procKilled, calls, issued, hostFs, clock, orch>>

\* prepareRootfs (lines 201-203): create the scratch directory, loop-mount.
RootfsMount(p) ==
  /\ pc[p] = "rootfs_mount"
  /\ Runs(p)
  /\ Quiet
  /\ \E ok \in BOOLEAN :
       /\ hist' = Logged(p, <<"mount", ok>>)
       /\ IF ok
            THEN /\ host' = [host EXCEPT !.dirs = @ \cup {MountPoint(frame[p].vmId)},
                                         !.loops = @ \cup {MountPoint(frame[p].vmId)}]
                 /\ Goto(p, "rootfs_inject")
                 /\ UNCHANGED frame
            ELSE /\ host' = [host EXCEPT !.dirs = @ \cup {MountPoint(frame[p].vmId)}]
                 /\ Throw(p, "Command failed: sudo mount")
  /\ UNCHANGED <<nextVmId, activeVMs, procKilled, calls, issued, hostFs, clock, orch>>

\* prepareRootfs (lines 235-245): what the guest path of a mount holds in the
\* image.  A host path that does not exist is skipped; the base image holds
\* none of the guest paths.
StageMount(mount) ==
  IF hostFs[mount.hostPath] = "missing"
    THEN "missing"
    ELSE CopyInto("empty", hostFs[mount.hostPath])

\* prepareRootfs (lines 205-255): key, credentials, gateway key, mounts,
\* network configuration.  A throw is pending while the finally clause runs.
RootfsInject(p) ==
  /\ pc[p] = "rootfs_inject"
  /\ Runs(p)
  /\ Quiet
  /\ \E ok \in BOOLEAN :
       /\ hist' = Logged(p, <<"inject", ok>>)
       /\ frame' = IF ok
            THEN [frame EXCEPT
                    ![p].staged = [i \in 1..Len(frame[p].mounts) |->
                                     StageMount(frame[p].mounts[i])],
                    ![p].guest = [i \in 1..Len(frame[p].mounts) |->
                                    StageMount(frame[p].mounts[i])]]
            ELSE [frame EXCEPT ![p].thrown = "Command failed: inject"]
  /\ Goto(p, "rootfs_umount")
  /\ UNCHANGED <<nextVmId, activeVMs, host, procKilled, calls, issued, hostFs, clock, orch>>

\* prepareRootfs lines 256-259: the unmount and the removal of the scratch
\* directory stand in a finally clause, so they run with a throw pending too.
UnmountsOnReturnOnly(thrown) == thrown = ""

Unmounts(thrown) == TRUE

\* prepareRootfs (lines 256-261): the finally clause unmounts and removes
\* the scratch directory, then the pending throw continues or the path is
\* returned.
RootfsUnmount(p) ==
  /\ pc[p] = "rootfs_umount"
  /\ Runs(p)
  /\ Quiet
  /\ host' = IF Unmounts(frame[p].thrown)
               THEN [host EXCEPT !.loops = @ \ {MountPoint(frame[p].vmId)},
                                 !.dirs = @ \ {MountPoint(frame[p].vmId)}]
               ELSE host
  /\ IF frame[p].thrown # ""
       THEN pc' = [pc EXCEPT ![p] = "catch"] /\ cur' = p
       ELSE pc' = [pc EXCEPT ![p] = "fc_spawn"] /\ cur' = p
  /\ UNCHANGED <<nextVmId, activeVMs, frame, procKilled, hist, calls, issued, hostFs, clock, orch>>

\* startFirecrackerProcess (lines 276-289): remove a stale socket, spawn the
\* hypervisor, take the deadline.
FcSpawn(p) ==
  /\ pc[p] = "fc_spawn"
  /\ Runs(p)
  /\ Quiet
  /\ host' = [host EXCEPT !.files = @ \ {SocketPath(frame[p].vmId)},
                          !.procs = @ \cup {frame[p].vmId}]
  /\ frame' = [frame EXCEPT ![p].elapsed = 0]
  /\ hist' = [Logged(p, <<"startFirecrackerProcess">>) EXCEPT ![p].alloc = @ \cup {"process"}]
  /\ Goto(p, "fc_poll")
  /\ UNCHANGED <<nextVmId, activeVMs, procKilled, calls, issued, hostFs, clock, orch>>

\* startFirecrackerProcess (lines 290-298): one turn of the socket loop.
FcPoll(p) ==
  /\ pc[p] = "fc_poll"
  /\ Runs(p)
  /\ Quiet
  /\ IF SocketPath(frame[p].vmId) \in host.files
       THEN /\ pc' = [pc EXCEPT ![p] = "register"]
            /\ cur' = p
            /\ frame' = [frame EXCEPT ![p].elapsed = 0]
       ELSE IF frame[p].elapsed > SOCKET_DEADLINE_MS
              THEN /\ pc' = [pc EXCEPT ![p] = "fc_timeout"]
                   /\ cur' = p
                   /\ UNCHANGED frame
              ELSE /\ frame' = [frame EXCEPT ![p].elapsed = @ + SOCKET_POLL_MS]
                   /\ Goto(p, "fc_poll")
  /\ UNCHANGED <<nextVmId, activeVMs, host, procKilled, hist, calls, issued, hostFs, clock, orch>>

\* startFirecrackerProcess (lines 292-293): past the deadline the
\* subprocess is killed and the error raised.
FcTimeoutNoKill(p) ==
  /\ pc[p] = "fc_timeout"
  /\ Runs(p)
  /\ Quiet
  /\ frame' = [frame EXCEPT ![p].thrown = "[FC] Firecracker socket did not appear",
                            ![p].elapsed = 0]
  /\ pc' = [pc EXCEPT ![p] = "catch"]
  /\ cur' = p
  /\ UNCHANGED <<nextVmId, activeVMs, host, procKilled, hist, calls, issued,
                 hostFs, clock, orch>>

FcTimeout(p) ==
  /\ pc[p] = "fc_timeout"
  /\ Runs(p)
  /\ Quiet
  /\ host' = [host EXCEPT !.procs = @ \ {frame[p].vmId},
                          !.guests = @ \ {frame[p].vmId}]
  /\ procKilled' = procKilled \cup {frame[p].vmId}
  /\ hist' = Released(hist, frame[p].vmId, "process")
  /\ frame' = [frame EXCEPT ![p].thrown = "[FC] Firecracker socket did not appear",
                            ![p].elapsed = 0]
  /\ pc' = [pc EXCEPT ![p] = "catch"]
  /\ cur' = p
  /\ UNCHANGED <<nextVmId, activeVMs, calls, issued, hostFs, clock, orch>>

\* The hypervisor subprocess creates its control socket (--api-sock).
HypervisorListens(p) ==
  /\ pc[p] # "idle"
  /\ frame[p].vmId \in host.procs
  /\ SocketPath(frame[p].vmId) \notin host.files
  /\ host' = [host EXCEPT !.files = @ \cup {SocketPath(frame[p].vmId)}]
  /\ hist' = [hist EXCEPT ![p].alloc = @ \cup {"socket"}]
  /\ UNCHANGED <<nextVmId, activeVMs, pc, frame, cur, procKilled, ret, obs, calls, issued, hostFs, clock, orch>>

\* The MicroVM record of lines 511-520.
VmRecord(f) ==
  [vmId |-> f.vmId, groupId |-> f.groupId, ip |-> f.ip,
   tapDevice |-> TapName(f.vmId), rootfsPath |-> RootfsPath(f.vmId),
   socketPath |-> SocketPath(f.vmId), process |-> f.vmId,
   startedAt |-> f.startTime]

\* Lines 511-521: the sandbox is built and entered into the live map.
Register(p) ==
  /\ pc[p] = "register"
  /\ Runs(p)
  /\ Quiet
  /\ frame' = [frame EXCEPT ![p].vm = VmRecord(frame[p]), ![p].idx = 1]
  /\ activeVMs' = MapSet(activeVMs, frame[p].groupId, VmRecord(frame[p]))
  /\ hist' = Logged(p, <<"register">>)
  /\ Goto(p, "boot")
  /\ UNCHANGED <<nextVmId, host, procKilled, calls, issued, hostFs, clock, orch>>

\* firecrackerApiCall (lines 264-273).  curl runs with -s and without
\* --fail, so it exits 0 on any HTTP answer: only a transport error (or the
\* 5 s timeout) makes execSync throw; an answer that refuses the request
\* is read by no one.
ApiCallThrows(out) == out = "transport"

\* configureAndBootVM (lines 319-348): the idx-th control call.  The first
\* refusal of the control plane is noted in hist; a hypervisor that refused
\* a part of the configuration does not bring up a guest.
BootCall(p) ==
  /\ pc[p] = "boot"
  /\ Runs(p)
  /\ Quiet
  /\ \E out \in {"accepted", "rejected", "transport"} :
       LET idx == frame[p].idx
           refused == \E i \in 1..Len(hist[p].log) : hist[p].log[i][1] = "rejected"
           noted == IF out = "rejected" /\ ~refused
                      THEN <<<<"api", idx>>, <<"rejected", idx>>>>
                      ELSE <<<<"api", idx>>>> IN
       /\ hist' = [hist EXCEPT ![p].log = @ \o noted]
       /\ IF ApiCallThrows(out)
            THEN Throw(p, "Command failed: curl") /\ UNCHANGED host
            ELSE /\ host' = IF idx = BOOT_CALLS /\ out = "accepted" /\ ~refused
                                /\ frame[p].vmId \in host.procs
                              THEN [host EXCEPT !.guests = @ \cup {frame[p].vmId}]
                              ELSE host
                 /\ IF idx = BOOT_CALLS
                      THEN /\ frame' = [frame EXCEPT ![p].elapsed = 0]
                           /\ Goto(p, "ssh_probe")
                      ELSE /\ frame' = [frame EXCEPT ![p].idx = @ + 1]
                           /\ Goto(p, "boot")
  /\ UNCHANGED <<nextVmId, activeVMs, procKilled, calls, issued, hostFs, clock, orch>>

\* waitForSSH line 371: the loop ended without a successful probe.
WaitForSSHExpiredReturns(p) ==
  /\ frame' = [frame EXCEPT ![p].elapsed = 0]
  /\ Goto(p, "upload")

WaitForSSHExpired(p) ==
  /\ frame' = [frame EXCEPT ![p].thrown = "[FC] SSH did not become available",
                            ![p].elapsed = 0]
  /\ pc' = [pc EXCEPT ![p] = "catch"]
  /\ cur' = p

\* waitForSSH lines 355-357 and 367: the time since the deadline was set,
\* after a failed probe that took d and the sleep that follows it; the
\* deadline is set once, before the loop.
SshElapsedDeadlineRetaken(elapsed, d) == 0

SshElapsedAfter(elapsed, d) == elapsed + d + SSH_POLL_INTERVAL_MS

\* waitForSSH (lines 353-372): one turn of the readiness loop.  A probe that
\* fails took between no time and its own 5 s timeout; then the loop sleeps.
WaitForSSH(p) ==
  /\ pc[p] = "ssh_probe"
  /\ Runs(p)
  /\ Quiet
  /\ IF frame[p].elapsed < SSH_BOOT_TIMEOUT_MS
       THEN \E ready \in BOOLEAN, d \in {0, SSH_PROBE_TIMEOUT_MS} :
              IF ready /\ frame[p].vmId \in host.guests
                THEN /\ d = 0
                     /\ Goto(p, "upload")
                     /\ hist' = Logged(p, <<"waitForSSH", "ready">>)
                     /\ frame' = [frame EXCEPT ![p].elapsed = 0]
                ELSE /\ frame' = [frame EXCEPT ![p].elapsed = SshElapsedAfter(@, d)]
                     /\ Goto(p, "ssh_probe")
                     /\ UNCHANGED hist
       ELSE /\ WaitForSSHExpired(p)
            /\ hist' = Logged(p, <<"waitForSSH", "timeout">>)
  /\ UNCHANGED <<nextVmId, activeVMs, host, procKilled, calls, issued, hostFs, clock, orch>>

\* ------------------------------------------------------------ execSync
\* What child_process.execSync hands back: the spawnSync result {status,
\* signal, stdout, stderr, error}.  status is null (NullStatus) when the
\* child was ended by a signal; code names result.error (ETIMEDOUT when the
\* timeout option expired, ENOBUFS when maxBuffer was exceeded).
RunOk(out) ==
  [class |-> "ok", status |-> 0, signal |-> "", code |-> "",
   stdout |-> out, stderr |-> ""]

RunExit(n, out, errText) ==
  [class |-> "exit", status |-> n, signal |-> "", code |-> "",
   stdout |-> out, stderr |-> errText]

RunTimeout(out) ==
  [class |-> "timeout", status |-> NullStatus, signal |-> "SIGTERM",
   code |-> "ETIMEDOUT", stdout |-> out, stderr |-> ""]

RunOverflow(out) ==
  [class |-> "overflow", status |-> NullStatus, signal |-> "SIGTERM",
   code |-> "ENOBUFS", stdout |-> out, stderr |-> ""]

\* maxBuffer was exceeded by output read after the child had exited by
\* itself: spawnSync then sends no signal, and the result carries the error
\* together with the exit status of the child.
RunOverflowExited(out) ==
  [class |-> "overflow", status |-> 0, signal |-> "", code |-> "ENOBUFS",
   stdout |-> out, stderr |-> ""]

\* Lines 389-392: the upload command, with its 5 s timeout.
UploadRuns == {RunOk(""), RunExit(255, "", "ssh: connection failed"), RunTimeout("")}

\* Lines 395-398: the task command, with timeoutMs and maxBuffer.
TaskRuns ==
  {RunOk("task stdout"), RunExit(2, "task stdout", "task stderr"),
   RunTimeout("partial stdout"), RunOverflow("truncated stdout"),
   RunOverflowExited("truncated stdout")}

\* execSync throws when the result carries an error or a non-zero status;
\* the thrown Error is given the properties of the result.
ExecSyncThrows(r) == r.code # "" \/ r.status # 0

\* err.killed (line 401).  The Error thrown by execSync has the properties
\* of the spawnSync result and no property named killed: only the callback
\* of the asynchronous exec sets one.  An absent property reads as undefined.
ErrKilledOnSignal(err) == err.signal # ""

ErrKilled(err) == "killed" \in DOMAIN err /\ err.killed

\* err.status ?? 1 (line 406)
StatusOrOne(err) == IF err.status = NullStatus THEN 1 ELSE err.status

\* The catch clause of executeTaskViaSSH (lines 400-408), for either command.
ExecCatchFrom(fr, p, err) ==
  IF ErrKilled(err)
    THEN /\ frame' = [fr EXCEPT ![p].thrown = "[FC] Task timed out"]
         /\ pc' = [pc EXCEPT ![p] = "catch"]
         /\ cur' = p
    ELSE /\ frame' = [fr EXCEPT ![p].stdout = <<err.stdout, "\n", err.stderr>>,
                                ![p].exitCode = StatusOrOne(err)]
         /\ Goto(p, "changed")

ExecCatch(p, err) == ExecCatchFrom(frame, p, err)

\* executeTaskViaSSH (lines 389-392): the payload is written into the guest.
Upload(p) ==
  /\ pc[p] = "upload"
  /\ Runs(p)
  /\ Quiet
  /\ \E r \in UploadRuns :
       /\ hist' = Logged(p, <<"upload", r.class>>)
       /\ IF ExecSyncThrows(r)
            THEN ExecCatch(p, r)
            ELSE Goto(p, "exec") /\ UNCHANGED frame
  /\ UNCHANGED <<nextVmId, activeVMs, host, procKilled, calls, issued, hostFs, clock, orch>>

\* What the task does to the guest path of a mount while it runs: nothing,
\* write the file (creating the directory when it is not there), or remove
\* the file.
TaskEffects == {"none", "write", "delete"}

TaskEffect(eff, dir) ==
  CASE eff = "write" -> "v2"
    [] eff = "delete" -> IF dir \in {"v1", "v2"} THEN "empty" ELSE dir
    [] OTHER -> dir

\* executeTaskViaSSH (lines 395-399): the entry script runs the task, which
\* works on the guest's copies of the mounts whatever way it ends.
Execute(p) ==
  /\ pc[p] = "exec"
  /\ Runs(p)
  /\ Quiet
  /\ \E r \in TaskRuns, eff \in TaskEffects :
       LET worked == [frame EXCEPT ![p].guest =
                        [i \in 1..Len(frame[p].guest) |->
                           TaskEffect(eff, frame[p].guest[i])]] IN
       /\ hist' = Logged(p, <<"execute", r.class>>)
       /\ IF ExecSyncThrows(r)
            THEN ExecCatchFrom(worked, p, r)
            ELSE /\ frame' = [worked EXCEPT ![p].stdout = <<r.stdout>>,
                                            ![p].exitCode = 0]
                 /\ Goto(p, "changed")
  /\ UNCHANGED <<nextVmId, activeVMs, host, procKilled, calls, issued, hostFs, clock, orch>>

\* getChangedFiles lines 419-421: the list of a command that ran, the empty
\* list from the catch clause.
FilesFoundUnlessNone(out) == IF out = "none" THEN << >> ELSE <<"/mnt/project/f">>

FilesFound(out) == IF out = "some" THEN <<"/mnt/project/f">> ELSE << >>

\* getChangedFiles (lines 411-423): a failure degrades to the empty list.
GetChangedFiles(p) ==
  /\ pc[p] = "changed"
  /\ Runs(p)
  /\ Quiet
  /\ \E out \in {"some", "none", "failed"} :
       /\ frame' = [frame EXCEPT
            ![p].filesChanged = FilesFound(out),
            ![p].idx = 1]
       /\ hist' = Logged(p, <<"getChangedFiles", out>>)
  /\ Goto(p, "sync")
  /\ UNCHANGED <<nextVmId, activeVMs, host, procKilled, calls, issued, hostFs, clock, orch>>

\* syncFilesBack line 428: the mounts that are not copied back.
SkipsWriteBackNever(mount) == FALSE

SkipsWriteBack(mount) == mount.readOnly

\* syncFilesBack lines 430-434: scp -r agent@ip:guestPath/. hostPath/ copies
\* the guest directory into the host directory.
WriteBackReversed(hostDir, guestDir) == hostDir

WriteBack(hostDir, guestDir) == CopyInto(hostDir, guestDir)

\* syncFilesBack lines 435-438: after the copy of a mount, failed (the catch
\* clause only logs) or not, the loop goes on to the next mount.
AfterScpAborts(p, copied) ==
  IF copied
    THEN frame' = [frame EXCEPT ![p].idx = @ + 1] /\ Goto(p, "sync")
    ELSE Throw(p, "Command failed: scp")

AfterScp(p, copied) ==
  /\ frame' = [frame EXCEPT ![p].idx = @ + 1]
  /\ Goto(p, "sync")

\* syncFilesBack (lines 425-440): the idx-th mount; past the last mount the
\* function returns and runTask builds its result (lines 542-550).  scp
\* fails when the guest path does not exist, or for a reason of its own;
\* the failure is logged and the loop goes on.
SyncFilesBack(p) ==
  /\ pc[p] = "sync"
  /\ Runs(p)
  /\ Quiet
  /\ IF frame[p].idx > Len(frame[p].mounts)
       THEN /\ frame' = [frame EXCEPT ![p].result =
                 [output |-> frame[p].stdout,
                  filesChanged |-> frame[p].filesChanged,
                  exitCode |-> frame[p].exitCode]]
            /\ pc' = [pc EXCEPT ![p] = "finally"]
            /\ cur' = p
            /\ UNCHANGED <<hist, hostFs>>
       ELSE LET mount == frame[p].mounts[frame[p].idx]
                guestDir == frame[p].guest[frame[p].idx] IN
              IF SkipsWriteBack(mount)
                THEN AfterScp(p, TRUE) /\ UNCHANGED <<hist, hostFs>>
                ELSE \E ok \in BOOLEAN :
                       LET copied == ok /\ guestDir # "missing" IN
                       /\ hist' = Logged(p, <<"scp", frame[p].idx, copied>>)
                       /\ hostFs' = IF copied
                            THEN [hostFs EXCEPT ![mount.hostPath] =
                                    WriteBack(@, guestDir)]
                            ELSE hostFs
                       /\ AfterScp(p, copied)
  /\ UNCHANGED <<nextVmId, activeVMs, host, procKilled, calls, issued, clock, orch>>

\* The catch clause of runTask (lines 552-562).
Catch(p) ==
  /\ pc[p] = "catch"
  /\ Runs(p)
  /\ Quiet
  /\ frame' = [frame EXCEPT ![p].result =
       [output |-> <<"Error: ", frame[p].thrown>>,
        filesChanged |-> << >>,
        exitCode |-> 1]]
  /\ pc' = [pc EXCEPT ![p] = "finally"]
  /\ cur' = p
  /\ UNCHANGED <<nextVmId, activeVMs, host, procKilled, hist, calls, issued, hostFs, clock, orch>>

\* ------------------------------------------------------------ teardown
\* The teardown steps act on st = [host, killed, map, hist, threw]; threw
\* tells that an exception is on its way out of the teardown, which skips
\* the statements that follow.
\* try { statement } catch { } (lines 184, 450, 458, 463, 570, 571): an
\* exception of the statement ends in the catch clause.
CaughtNot(st) == st

Caught(st) == [st EXCEPT !.threw = FALSE]

\* A removal command fails, and throws, when the resource is not there or
\* the host refuses the removal; a refused removal leaves the resource.
RemovalFails(st, kind, there) == ~there \/ kind \in st.host.stuck

Without(set, kind, name, st) ==
  IF kind \in st.host.stuck THEN set ELSE set \ {name}

\* cleanupVM lines 446-450: SIGKILL unless the handle is already marked
\* killed; kill() returns false, without throwing, for a process that is gone.
StKill(st, vm) ==
  IF st.threw \/ vm.process \in st.killed
    THEN st
    ELSE Caught([st EXCEPT !.host.procs = @ \ {vm.process},
                           !.host.guests = @ \ {vm.process},
                           !.killed = IF vm.process \in st.host.procs
                                        THEN @ \cup {vm.process} ELSE @,
                           !.hist = Released(@, vm.vmId, "process")])

\* destroyTapDevice (lines 180-187)
StTapKeeps(st, tap, vmId) ==
  IF st.threw THEN st ELSE [st EXCEPT !.hist = Released(@, vmId, "tap")]

StTap(st, tap, vmId) ==
  IF st.threw
    THEN st
    ELSE Caught([st EXCEPT !.host.taps = Without(@, "tap", tap, st),
                           !.hist = Released(@, vmId, "tap"),
                           !.threw = RemovalFails(st, "tap", tap \in st.host.taps)])

\* fs.unlinkSync of the image (lines 456-458, 570)
StRootfs(st, path, vmId) ==
  IF st.threw
    THEN st
    ELSE Caught([st EXCEPT !.host.files = Without(@, "rootfs", path, st),
                           !.hist = Released(@, vmId, "rootfs"),
                           !.threw = RemovalFails(st, "rootfs", path \in st.host.files)])

\* fs.unlinkSync of the socket (lines 461-463, 571)
StSocket(st, path, vmId) ==
  IF st.threw
    THEN st
    ELSE Caught([st EXCEPT !.host.files = Without(@, "socket", path, st),
                           !.hist = Released(@, vmId, "socket"),
                           !.threw = RemovalFails(st, "socket", path \in st.host.files)])

\* activeVMs.delete(vm.groupId) (line 466)
StDeleteNone(st, vm) == st

StDelete(st, vm) ==
  IF st.threw THEN st ELSE [st EXCEPT !.map = MapDelete(@, vm.groupId)]

\* cleanupVM (lines 442-469) as one synchronous call.
CleanupVM(st, vm) ==
  StDelete(
    StSocket(
      StRootfs(
        StTap(StKill(st, vm), vm.tapDevice, vm.vmId),
        vm.rootfsPath, vm.vmId),
      vm.socketPath, vm.vmId),
    vm)

St ==
  [host |-> host, killed |-> procKilled, map |-> activeVMs, hist |-> hist,
   threw |-> FALSE]

Becomes(st) ==
  /\ host' = st.host
  /\ procKilled' = st.killed
  /\ activeVMs' = st.map
  /\ hist' = st.hist

\* Which teardown the finally clause of runTask runs (lines 565-572).
FinallyEntryAlwaysPartial(vm) == "pc_tap"

FinallyEntry(vm) == IF vm # NoVm THEN "cl_kill" ELSE "pc_tap"

\* Line 564: the finally clause is entered.
Finally(p) ==
  /\ pc[p] = "finally"
  /\ Runs(p)
  /\ Quiet
  /\ Goto(p, FinallyEntry(frame[p].vm))
  /\ UNCHANGED <<nextVmId, activeVMs, frame, host, procKilled, hist,
                 calls, issued, hostFs, clock, orch>>

\* cleanupVM (lines 445-466): the statement that follows each statement.
CleanupSuccessorDeleteFirst(l) ==
  CASE l = "cl_kill" -> "cl_delete"
    [] l = "cl_delete" -> "cl_tap"
    [] l = "cl_tap" -> "cl_rootfs"
    [] l = "cl_rootfs" -> "cl_socket"
    [] l = "cl_socket" -> "settle"

CleanupSuccessor(l) ==
  CASE l = "cl_kill" -> "cl_tap"
    [] l = "cl_tap" -> "cl_rootfs"
    [] l = "cl_rootfs" -> "cl_socket"
    [] l = "cl_socket" -> "cl_delete"
    [] l = "cl_delete" -> "settle"

\* Line 566: cleanupVM(vm), one statement at a time.  An exception that
\* leaves a statement leaves cleanupVM and the finally clause with it.
CleanupStep(p) ==
  /\ pc[p] \in {"cl_kill", "cl_tap", "cl_rootfs", "cl_socket", "cl_delete"}
  /\ Runs(p)
  /\ Quiet
  /\ LET vm == frame[p].vm
         after == CASE pc[p] = "cl_kill" -> StKill(St, vm)
                    [] pc[p] = "cl_tap" -> StTap(St, vm.tapDevice, vm.vmId)
                    [] pc[p] = "cl_rootfs" -> StRootfs(St, vm.rootfsPath, vm.vmId)
                    [] pc[p] = "cl_socket" -> StSocket(St, vm.socketPath, vm.vmId)
                    [] pc[p] = "cl_delete" -> StDelete(St, vm)
     IN /\ Becomes(after)
        /\ Goto(p, IF after.threw THEN "escaped" ELSE CleanupSuccessor(pc[p]))
  /\ UNCHANGED <<nextVmId, frame, calls, issued, hostFs, clock, orch>>

\* Lines 568-571: the teardown when no MicroVM record was built.
PartialCleanupStep(p) ==
  /\ pc[p] \in {"pc_tap", "pc_rootfs", "pc_socket"}
  /\ Runs(p)
  /\ Quiet
  /\ LET id == frame[p].vmId
         after == CASE pc[p] = "pc_tap" -> StTap(St, TapName(id), id)
                    [] pc[p] = "pc_rootfs" -> StRootfs(St, RootfsPath(id), id)
                    [] pc[p] = "pc_socket" -> StSocket(St, SocketPath(id), id)
         next == CASE pc[p] = "pc_tap" -> "pc_rootfs"
                   [] pc[p] = "pc_rootfs" -> "pc_socket"
                   [] pc[p] = "pc_socket" -> "settle"
     IN /\ Becomes(after)
        /\ Goto(p, IF after.threw THEN "escaped" ELSE next)
  /\ UNCHANGED <<nextVmId, frame, calls, issued, hostFs, clock, orch>>

\* The finally clause is done: the promise resolves with the result that the
\* try or the catch clause returned, or rejects with the exception that left
\* the finally clause.
Settle(p) ==
  /\ pc[p] \in {"settle", "escaped"}
  /\ Runs(p)
  /\ ret' = IF pc[p] = "escaped"
             THEN [kind |-> "rejected", proc |-> p, groupId |-> frame[p].groupId,
                   vmId |-> frame[p].vmId, error |-> "teardown",
                   hist |-> hist[p]]
             ELSE [kind |-> "resolved", proc |-> p, groupId |-> frame[p].groupId,
                   vmId |-> frame[p].vmId, result |-> frame[p].result,
                   hist |-> hist[p], mounts |-> frame[p].mounts,
                   staged |-> frame[p].staged, guest |-> frame[p].guest,
                   stdout |-> frame[p].stdout, exitCode |-> frame[p].exitCode]
  /\ obs' = NoObs
  /\ pc' = [pc EXCEPT ![p] = "idle"]
  /\ cur' = None
  /\ frame' = [frame EXCEPT ![p] = EmptyFrame]
  /\ hist' = [hist EXCEPT ![p] = EmptyHist]
  /\ procKilled' = procKilled \ {frame[p].vmId}
  /\ UNCHANGED <<nextVmId, activeVMs, host, calls, issued, hostFs, clock, orch>>

\* ------------------------------------------------------------ the other API
\* killVM (lines 593-598)
KillVM(g) ==
  /\ cur = None
  /\ ret' = NoRet
  /\ obs' = [op |-> "killVM", groupId |-> g, found |-> Has(activeVMs, g)]
  /\ IF Has(activeVMs, g)
       THEN Becomes(CleanupVM(St, Get(activeVMs, g)))
       ELSE UNCHANGED <<host, procKilled, activeVMs, hist>>
  /\ UNCHANGED <<nextVmId, pc, frame, cur, calls, issued, hostFs, clock, orch>>

\* cleanupAll (lines 603-609): the iterator of a Map visits the entries that
\* are present when it reaches them, in insertion order; cleanupVM deletes
\* the entry just visited.
CleanupFromFirstOnly(st, todo) ==
  IF todo = << >> THEN st ELSE CleanupVM(st, Head(todo))

RECURSIVE CleanupFrom(_, _)
CleanupFrom(st, todo) ==
  IF todo = << >>
    THEN st
    ELSE CleanupFrom(IF Has(st.map, Head(todo).groupId)
                       THEN CleanupVM(st, Head(todo)) ELSE st,
                     Tail(todo))

CleanupAll ==
  /\ cur = None
  /\ ret' = NoRet
  /\ obs' = [op |-> "cleanupAll", size |-> Len(activeVMs)]
  /\ Becomes(CleanupFrom(St, activeVMs))
  /\ UNCHANGED <<nextVmId, pc, frame, cur, calls, issued, hostFs, clock, orch>>

\* getActiveVMs (lines 579-588)
StatusOfSinceEpoch(vm, now) ==
  [groupId |-> vm.groupId, vmId |-> vm.vmId, ip |-> vm.ip,
   startedAt |-> vm.startedAt, runtimeMs |-> now]

StatusOf(vm, now) ==
  [groupId |-> vm.groupId, vmId |-> vm.vmId, ip |-> vm.ip,
   startedAt |-> vm.startedAt, runtimeMs |-> now - vm.startedAt]

GetActiveVMs ==
  /\ cur = None
  /\ ret' = NoRet
  /\ obs' = [op |-> "getActiveVMs",
             status |-> [i \in 1..Len(activeVMs) |-> StatusOf(activeVMs[i], clock)]]
  /\ UNCHANGED <<nextVmId, activeVMs, pc, frame, cur, host, procKilled, hist, calls, issued, hostFs, clock, orch>>

Next ==
  \/ \E p \in Procs, g \in Groups, ms \in MountLists : Call(p, g, ms)
  \/ \E p \in Procs : Admit(p)
  \/ \E p \in Procs : Allocate(p)
  \/ \E p \in Procs : TapAdd(p)
  \/ \E p \in Procs : TapConfigure(p)
  \/ \E p \in Procs : RootfsCopy(p)
  \/ \E p \in Procs : RootfsMount(p)
  \/ \E p \in Procs : RootfsInject(p)
  \/ \E p \in Procs : RootfsUnmount(p)
  \/ \E p \in Procs : FcSpawn(p)
  \/ \E p \in Procs : FcPoll(p)
  \/ \E p \in Procs : FcTimeout(p)
  \/ \E p \in Procs : HypervisorListens(p)
  \/ \E p \in Procs : Register(p)
  \/ \E p \in Procs : BootCall(p)
  \/ \E p \in Procs : WaitForSSH(p)
  \/ \E p \in Procs : Upload(p)
  \/ \E p \in Procs : Execute(p)
  \/ \E p \in Procs : GetChangedFiles(p)
  \/ \E p \in Procs : SyncFilesBack(p)
  \/ \E p \in Procs : Catch(p)
  \/ \E p \in Procs : Finally(p)
  \/ \E p \in Procs : CleanupStep(p)
  \/ \E p \in Procs : PartialCleanupStep(p)
  \/ \E p \in Procs : Settle(p)
  \/ \E g \in Groups : KillVM(g)
  \/ CleanupAll
  \/ GetActiveVMs

Spec == Init /\ [][Next]_vars

\* ------------------------------------------------------------ the API alone
\* getActiveVMs, killVM and cleanupAll as functions of the live map: they are
\* applied to maps of up to two registered sandboxes, whose hypervisor
\* processes are running or have already died, at some time of the clock.
ApiIds == {1, 2}

ApiEntry(g, id, t) ==
  VmRecord([EmptyFrame EXCEPT !.groupId = g, !.vmId = id, !.ip = IpOf(id),
                              !.startTime = t])

ApiMaps ==
  {<< >>}
  \cup {<<ApiEntry(g, id, t)>> : g \in Groups, id \in ApiIds, t \in 0..1}
  \cup {<<ApiEntry(g[1], id[1], t[1]), ApiEntry(g[2], id[2], t[2])>> :
          g \in {x \in Groups \X Groups : x[1] # x[2]},
          id \in {x \in ApiIds \X ApiIds : x[1] # x[2]},
          t \in (0..1) \X (0..1)}

\* The host with every resource of the sandboxes of a map; alive tells
\* whether their hypervisor processes still run.
ApiHost(m, alive) ==
  [taps |-> {m[i].tapDevice : i \in 1..Len(m)},
   files |-> {m[i].rootfsPath : i \in 1..Len(m)}
             \cup {m[i].socketPath : i \in 1..Len(m)},
   procs |-> IF alive THEN {m[i].process : i \in 1..Len(m)} ELSE {},
   guests |-> {}, loops |-> {}, dirs |-> {}, stuck |-> {}]

ApiInit ==
  /\ activeVMs \in ApiMaps
  /\ \E alive \in BOOLEAN : host = ApiHost(activeVMs, alive)
  /\ issued = [i \in 1..Len(activeVMs) |-> activeVMs[i].vmId]
  /\ nextVmId = 3
  /\ clock = 1
  /\ pc = [p \in Procs |-> "idle"]
  /\ frame = [p \in Procs |-> EmptyFrame]
  /\ cur = None
  /\ procKilled = {}
  /\ hist = [p \in Procs |-> EmptyHist]
  /\ ret = NoRet
  /\ obs = NoObs
  /\ calls = 0
  /\ hostFs = HostFsAtStart
  /\ orch = NoOrch

\* Time passes.
Tick ==
  /\ cur = None
  /\ clock < MaxClock
  /\ clock' = clock + 1
  /\ Quiet
  /\ UNCHANGED <<nextVmId, activeVMs, pc, frame, cur, host, procKilled, hist,
                 calls, issued, hostFs, orch>>

ApiNext ==
  \/ GetActiveVMs
  \/ \E g \in Groups : KillVM(g)
  \/ CleanupAll
  \/ Tick

ApiSpec == ApiInit /\ [][ApiNext]_vars

\* ------------------------------------------------------------ the orchestrator
\* runContainerAgent and buildMounts (lines 642-734), up to the call of
\* runTask.
PROJECT_ROOT == "/srv/nanoclaw"

GroupDir(folder) == IF folder = "main" THEN "/groups/main" ELSE "/groups/family"

GlobalDir == MountRO.hostPath

ClaudeAuthDir(folder) ==
  IF folder = "main" THEN "/data/sessions/main/.claude"
                     ELSE "/data/sessions/family/.claude"

LogsDir(folder) == IF folder = "main" THEN "/groups/main/logs" ELSE "/groups/family/logs"

\* group.containerConfig?.additionalMounts: absent, or a list of requests.
NoMounts == [given |-> FALSE, list |-> << >>]

Asked(list) == [given |-> TRUE, list |-> list]

ReqProj == [hostPath |-> "/home/u/proj", containerPath |-> "proj", readonly |-> FALSE]
ReqEtc == [hostPath |-> "/etc", containerPath |-> "etc", readonly |-> FALSE]
ReqRoot == [hostPath |-> PROJECT_ROOT, containerPath |-> "root", readonly |-> FALSE]
ReqGlobal == [hostPath |-> GlobalDir, containerPath |-> "memory", readonly |-> FALSE]
Requests ==
  {NoMounts, Asked(<< >>), Asked(<<ReqProj>>), Asked(<<ReqProj, ReqEtc>>),
   Asked(<<ReqRoot, ReqGlobal>>)}

RegisteredGroups ==
  [folder : Groups, name : {"Family chat"}, additionalMounts : Requests]

\* validateAdditionalMounts (mount-security.js): the mounts it approves are
\* among the requested ones, in their order, each read-only when requested
\* so or when the policy forces it.
ApprovedOf(req) == {<< >>, <<req>>, <<[req EXCEPT !.readonly = TRUE]>>}

RECURSIVE ValidateAdditionalMounts(_, _, _)
ValidateAdditionalMounts(requested, name, isMain) ==
  IF requested = << >>
    THEN {<< >>}
    ELSE {a \o rest : a \in ApprovedOf(Head(requested)),
                      rest \in ValidateAdditionalMounts(Tail(requested), name, isMain)}

\* Lines 683-689: a validated mount as a Mount of the sandbox.
AsMount(m) ==
  [hostPath |-> m.hostPath, guestPath |-> m.containerPath, readOnly |-> m.readonly]

\* Lines 646-674: the mounts buildMounts pushes on its own.
OwnMounts(group, isMain, globalExists) ==
  (IF isMain
     THEN <<[hostPath |-> PROJECT_ROOT, guestPath |-> "/mnt/project",
             readOnly |-> FALSE]>>
     ELSE << >>)
  \o <<[hostPath |-> GroupDir(group.folder), guestPath |-> "/workspace/group",
        readOnly |-> FALSE]>>
  \o (IF ~isMain /\ globalExists
        THEN <<[hostPath |-> GlobalDir, guestPath |-> "/workspace/global",
                readOnly |-> TRUE]>>
        ELSE << >>)

\* buildMounts (lines 642-693); validated is what validateAdditionalMounts
\* returned, the empty list when it was not called.
BuildMountsUnvalidated(group, isMain, validated, globalExists) ==
  OwnMounts(group, isMain, globalExists)
  \o [j \in 1..Len(group.additionalMounts.list) |->
        AsMount(group.additionalMounts.list[j])]

BuildMounts(group, isMain, validated, globalExists) ==
  OwnMounts(group, isMain, globalExists)
  \o [j \in 1..Len(validated) |-> AsMount(validated[j])]

\* runContainerAgent (lines 703-724): the directories are made, the mount
\* list built, and the arguments of runTask are ready.
OrchBuild(group, isMain) ==
  /\ cur = None
  /\ orch.stage = "none"
  /\ \E validated \in
         (IF group.additionalMounts.given
            THEN ValidateAdditionalMounts(group.additionalMounts.list, group.name, isMain)
            ELSE {<< >>}) :
       orch' = [stage |-> "built", group |-> group, isMain |-> isMain,
                validated |-> validated,
                made |-> {GroupDir(group.folder), ClaudeAuthDir(group.folder),
                          LogsDir(group.folder)},
                mounts |-> BuildMounts(group, isMain, validated,
                                       hostFs[GlobalDir] # "missing")]
  /\ Quiet
  /\ UNCHANGED <<nextVmId, activeVMs, pc, frame, cur, host, procKilled, hist,
                 calls, issued, hostFs, clock>>

\* runContainerAgent (lines 727-733): runTask is called with the mount list.
OrchCall(p) ==
  /\ orch.stage = "built"
  /\ calls = 0
  /\ Call(p, orch.group.folder, orch.mounts)

OrchInit ==
  /\ nextVmId = 1
  /\ activeVMs = << >>
  /\ pc = [p \in Procs |-> "idle"]
  /\ frame = [p \in Procs |-> EmptyFrame]
  /\ cur = None
  /\ host = EmptyHost
  /\ procKilled = {}
  /\ hist = [p \in Procs |-> EmptyHist]
  /\ ret = NoRet
  /\ obs = NoObs
  /\ calls = 0
  /\ issued = << >>
  /\ \E g \in {"missing", "v1"} : hostFs = [HostFsAtStart EXCEPT ![GlobalDir] = g]
  /\ clock = 0
  /\ orch = NoOrch

OrchNext ==
  \/ \E group \in RegisteredGroups, isMain \in BOOLEAN : OrchBuild(group, isMain)
  \/ \E p \in Procs : OrchCall(p)

OrchSpec == OrchInit /\ [][OrchNext]_vars

\* The statements of runTask.  The JavaScript thread goes on executing the
\* invocation that holds it, and the timer of the admission loop fires.
Step ==
  \E p \in Procs :
    \/ Admit(p) \/ Allocate(p) \/ TapAdd(p) \/ TapConfigure(p) \/ RootfsCopy(p)
    \/ RootfsMount(p) \/ RootfsInject(p) \/ RootfsUnmount(p) \/ FcSpawn(p)
    \/ FcPoll(p) \/ FcTimeout(p) \/ Register(p) \/ BootCall(p) \/ WaitForSSH(p)
    \/ Upload(p) \/ Execute(p) \/ GetChangedFiles(p) \/ SyncFilesBack(p)
    \/ Catch(p) \/ Finally(p) \/ CleanupStep(p) \/ PartialCleanupStep(p)
    \/ Settle(p)

\* Termination is checked from the counter value at which both outcomes of
\* allocateVm occur within MaxCalls invocations.
FairInit == Init /\ nextVmId = MAX_VM_ID - 1

FairSpec == FairInit /\ [][Next]_vars /\ WF_vars(Step)

\* ------------------------------------------------------------ refused removals
\* One invocation of runTask on a host that refuses the removal of some
\* kinds of resource: ip link delete or unlink fail there although the
\* device or the file exists.
FaultKinds == {"tap", "rootfs", "socket"}

FaultInit ==
  /\ nextVmId = 1
  /\ activeVMs = << >>
  /\ pc = [p \in Procs |-> "idle"]
  /\ frame = [p \in Procs |-> EmptyFrame]
  /\ cur = None
  /\ \E refused \in SUBSET FaultKinds : host = [EmptyHost EXCEPT !.stuck = refused]
  /\ procKilled = {}
  /\ hist = [p \in Procs |-> EmptyHist]
  /\ ret = NoRet
  /\ obs = NoObs
  /\ calls = 0
  /\ issued = << >>
  /\ hostFs = HostFsAtStart
  /\ clock = 0
  /\ orch = NoOrch

FaultCall(p, g, ms) ==
  /\ calls = 0
  /\ Call(p, g, ms)

FaultNext ==
  \/ \E p \in Procs, g \in Groups, ms \in MountLists : FaultCall(p, g, ms)
  \/ Step
  \/ \E p \in Procs : HypervisorListens(p)

FaultSpec == FaultInit /\ [][FaultNext]_vars

\* ------------------------------------------------------------ the agent's answer
\* runContainerAgent from the moment the promise of runTask settles (lines
\* 727-795).  The output of a run is a string, modelled as a sequence of
\* tokens: a blank, a visible character, or the completion marker.
MaxOutputLen == 3

Marker == "NANOCLAW_TASK_COMPLETE"

OutputTokens == {" ", "a", Marker}

Outputs == UNION {[1..n -> OutputTokens] : n \in 0..MaxOutputLen}

SessionIds == {"undefined", "session-1"}

\* What the awaited runTask settled with.
TaskOutcomes ==
  [kind : {"resolved"}, output : Outputs, exitCode : {0, 1, 2}]
    \cup [kind : {"rejected"}, message : {"[FC] Maximum VM count exceeded (253 concurrent VMs)"}]

\* String.prototype.includes and indexOf (0-based, -1 when absent).
Includes(s, tok) == \E i \in 1..Len(s) : s[i] = tok

IndexOf(s, tok) ==
  IF Includes(s, tok)
    THEN (CHOOSE i \in 1..Len(s) :
            s[i] = tok /\ \A j \in 1..(i - 1) : s[j] # tok) - 1
    ELSE 0 - 1

\* String.prototype.trim
RECURSIVE TrimStart(_)
TrimStart(s) ==
  IF s # << >> /\ Head(s) = " " THEN TrimStart(Tail(s)) ELSE s

RECURSIVE TrimEnd(_)
TrimEnd(s) ==
  IF s # << >> /\ s[Len(s)] = " " THEN TrimEnd(SubSeq(s, 1, Len(s) - 1)) ELSE s

Trim(s) == TrimEnd(TrimStart(s))

\* agentOutput || null (line 780)
NullResult == [null |-> TRUE]

OrNull(s) == IF s = << >> THEN NullResult ELSE [null |-> FALSE, text |-> s]

\* Line 756: the test for a failed run.
IsAgentErrorOnExitCode(res) == res.exitCode # 0

IsAgentError(res) == res.exitCode # 0 /\ ~Includes(res.output, Marker)

\* Lines 770-774: the output before the marker.
AgentOutput(output) ==
  IF IndexOf(output, Marker) # 0 - 1
    THEN Trim(SubSeq(output, 1, IndexOf(output, Marker)))
    ELSE output

\* Lines 727-795: what runContainerAgent returns.  The run log is written
\* inside the try block (line 753), so a failure to write it is caught by
\* the same catch clause as a rejection of runTask.
ContainerOutput(task, logWritten, sessionId) ==
  IF task.kind = "rejected"
    THEN [status |-> "error", result |-> NullResult,
          error |-> <<"VM error: ", task.message>>]
  ELSE IF ~logWritten
    THEN [status |-> "error", result |-> NullResult,
          error |-> <<"VM error: ", "writeFileSync">>]
  ELSE IF IsAgentError(task)
    THEN [status |-> "error", result |-> NullResult,
          error |-> <<"VM exited with code ", task.exitCode>>]
  ELSE [status |-> "success", result |-> OrNull(AgentOutput(task.output)),
        newSessionId |-> sessionId]

AgentInit ==
  /\ nextVmId = 1
  /\ activeVMs = << >>
  /\ pc = [p \in Procs |-> "idle"]
  /\ frame = [p \in Procs |-> EmptyFrame]
  /\ cur = None
  /\ host = EmptyHost
  /\ procKilled = {}
  /\ hist = [p \in Procs |-> EmptyHist]
  /\ ret = NoRet
  /\ obs = NoObs
  /\ calls = 0
  /\ issued = << >>
  /\ hostFs = HostFsAtStart
  /\ clock = 0
  /\ \E task \in TaskOutcomes, sessionId \in SessionIds :
       orch = [stage |-> "settled", task |-> task, sessionId |-> sessionId]

\* The rest of runContainerAgent runs and it returns.
AgentReturn ==
  /\ orch.stage = "settled"
  /\ \E logWritten \in BOOLEAN :
       orch' = [stage |-> "returned", task |-> orch.task,
                sessionId |-> orch.sessionId, logWritten |-> logWritten,
                out |-> ContainerOutput(orch.task, logWritten, orch.sessionId)]
  /\ UNCHANGED <<nextVmId, activeVMs, pc, frame, cur, host, procKilled, hist,
                 ret, obs, calls, issued, hostFs, clock>>

AgentNext == AgentReturn

AgentSpec == AgentInit /\ [][AgentNext]_vars

\* ------------------------------------------------------------ properties
LogHas(h, e) == \E i \in 1..Len(h.log) : h.log[i][1] = e[1] /\ h.log[i] = e

Did(h, step) == \E i \in 1..Len(h.log) : h.log[i][1] = step

\* Between passing the admission check and the end of the teardown.
InFlight(p) == pc[p] \notin {"idle", "admit", "wait", "settle"}

Resolved == ret.kind = "resolved"

TornDown(id, g) ==
  /\ TapName(id) \notin host.taps
  /\ RootfsPath(id) \notin host.files
  /\ SocketPath(id) \notin host.files
  /\ id \notin host.procs
  /\ ~Has(activeVMs, g)

\* C1: no two runTask invocations for one owner are at the same time
\* between passing the admission check and finishing their teardown.
C1_OneInFlightPerOwner ==
  \A p, q \in Procs :
    (p # q /\ InFlight(p) /\ InFlight(q)) => frame[p].groupId # frame[q].groupId

\* A later invocation has its sandbox registered and is waiting for the guest.
C1_Witness ==
  \E p \in Procs :
    /\ pc[p] = "ssh_probe"
    /\ Has(activeVMs, frame[p].groupId)
    /\ calls >= 2

\* C2: when runTask returns, the TAP device, disk image, control socket and
\* hypervisor subprocess of that invocation are gone and the owner has no
\* entry in the live map.
C2_NothingLeftOnReturn ==
  ret.kind # "none" => TornDown(ret.vmId, ret.groupId)

\* A run that allocated all four resources and ran its task has returned.
C2_Witness ==
  /\ Resolved
  /\ ret.hist.alloc = Kinds
  /\ LogHas(ret.hist, <<"execute", "ok">>)

\* C3: the release action of every resource an invocation allocated is
\* executed exactly once: never twice while it runs, and once when it returns.
C3_ReleasedExactlyOnce ==
  /\ \A p \in Procs : \A k \in Kinds : hist[p].rel[k] <= 1
  /\ Resolved => \A k \in ret.hist.alloc : ret.hist.rel[k] = 1

\* A run that failed at boot, with all four resources allocated, has returned.
C3_Witness ==
  /\ Resolved
  /\ ret.hist.alloc = Kinds
  /\ ret.result.output = <<"Error: ", "Command failed: curl">>
  /\ \A k \in Kinds : ret.hist.rel[k] = 1

\* C4: every runTask invocation resolves with a TaskResult and never
\* rejects, sandbox-ID exhaustion included.
C4_NeverRejects == ret.kind # "rejected"

\* C5: allocateVm returns only IDs in 1..253, never the same ID twice, and
\* fails on every call made once the counter has passed 253.
C5_IdsInRangeAndFresh ==
  /\ \A i \in 1..Len(issued) : issued[i] >= 1 /\ issued[i] <= 253
  /\ \A i, j \in 1..Len(issued) : i # j => issued[i] # issued[j]
  /\ \A p \in Procs : InFlight(p) /\ pc[p] # "alloc" =>
       frame[p].vmId >= 1 /\ frame[p].vmId <= 253
  /\ ret.kind = "rejected" => nextVmId > 254
  /\ nextVmId > 254 => \A p \in Procs : pc[p] \in {"idle", "admit", "wait", "alloc"}

\* ID 253 was handed out and the next call was refused.
C5_Witness ==
  /\ ret.kind = "rejected"
  /\ Len(issued) >= 1
  /\ issued[Len(issued)] = 253

C7_ExecutionTimeoutReported ==
  (Resolved /\ LogHas(ret.hist, <<"execute", "timeout">>)) =>
    /\ ret.result.output = <<"Error: ", "[FC] Task timed out">>
    /\ ret.result.exitCode # 0
    /\ ~Did(ret.hist, "scp")
    /\ TornDown(ret.vmId, ret.groupId)

\* C8: a readiness timeout makes runTask skip upload, execution, change
\* detection and write-back and return a non-zero result whose error text
\* names the readiness timeout; no other run returns that text.
C8_ReadinessTimeoutReported ==
  /\ \A p \in Procs : pc[p] = "ssh_probe" =>
       frame[p].elapsed < SSH_BOOT_TIMEOUT_MS + SSH_PROBE_TIMEOUT_MS + SSH_POLL_INTERVAL_MS
  /\ Resolved =>
       /\ LogHas(ret.hist, <<"waitForSSH", "timeout">>)
            <=> ret.result.output = <<"Error: ", "[FC] SSH did not become available">>
       /\ LogHas(ret.hist, <<"waitForSSH", "timeout">>) =>
            /\ ret.result.exitCode # 0
            /\ ~Did(ret.hist, "upload")
            /\ ~Did(ret.hist, "execute")
            /\ ~Did(ret.hist, "getChangedFiles")
            /\ ~Did(ret.hist, "scp")

\* A run whose guest was started but never answered has returned.
C8_Witness ==
  /\ Resolved
  /\ LogHas(ret.hist, <<"waitForSSH", "timeout">>)
  /\ LogHas(ret.hist, <<"api", BOOT_CALLS>>)

\* C9: exitCode 0 is returned only when every step up to and including
\* the task execution succeeded, and a run that never executed the task
\* returns a non-zero exitCode and an error output.
C9_NoResultWithoutExecution ==
  Resolved =>
    /\ ret.result.exitCode = 0 =>
         /\ ret.hist.alloc = Kinds
         /\ LogHas(ret.hist, <<"api", BOOT_CALLS>>)
         /\ LogHas(ret.hist, <<"waitForSSH", "ready">>)
         /\ LogHas(ret.hist, <<"upload", "ok">>)
         /\ LogHas(ret.hist, <<"execute", "ok">>)
    /\ ~Did(ret.hist, "execute") =>
         /\ ret.result.exitCode # 0
         /\ ret.result.output[1] = "Error: "

\* C10: every failed run, a task that exited non-zero included, returns a
\* non-zero exitCode and an output that begins with an error description.
C10_FailedRunDescribesError ==
  (Resolved /\ ~LogHas(ret.hist, <<"execute", "ok">>)) =>
    /\ ret.result.exitCode # 0
    /\ ret.result.output[1] = "Error: "

\* The write-back of the i-th mount was attempted.
ScpTried(h, i) == \E k \in 1..Len(h.log) : h.log[k][1] = "scp" /\ h.log[k][2] = i

\* The host paths that every mount list gives read-only.
ReadOnlyPaths ==
  {h \in HostPaths :
     \A ms \in MountLists : \A i \in 1..Len(ms) :
       ms[i].hostPath = h => ms[i].readOnly}

C12_ModifiedContentsOnHost ==
  Resolved => \A i \in 1..Len(ret.guest) :
    (~ret.mounts[i].readOnly /\ ret.guest[i] # ret.staged[i]) =>
      hostFs[ret.mounts[i].hostPath] = ret.guest[i]

\* C12 as amended: when runTask returns, the host path of every writable
\* mount whose write-back copy succeeded exists and holds every file of the
\* guest path with the guest's contents.
C12_CopiedContentsOnHost ==
  Resolved => \A i \in 1..Len(ret.guest) :
    (~ret.mounts[i].readOnly /\ LogHas(ret.hist, <<"scp", i, TRUE>>)) =>
      /\ hostFs[ret.mounts[i].hostPath] # "missing"
      /\ ret.guest[i] \in {"v1", "v2"} =>
           hostFs[ret.mounts[i].hostPath] = ret.guest[i]

\* A run has returned whose task rewrote the staged file of a writable
\* mount, and the host holds the new contents.
C12_Witness ==
  /\ Resolved
  /\ \E i \in 1..Len(ret.guest) :
       /\ ~ret.mounts[i].readOnly
       /\ ret.staged[i] = "v1"
       /\ ret.guest[i] = "v2"
       /\ LogHas(ret.hist, <<"scp", i, TRUE>>)
       /\ hostFs[ret.mounts[i].hostPath] = "v2"

\* C13: a mount whose host path does not exist at staging time does not
\* fail the run, and the host path still does not exist when runTask returns.
C13_MissingHostPathStaysMissing ==
  Resolved => \A i \in 1..Len(ret.staged) :
    ret.staged[i] = "missing" => hostFs[ret.mounts[i].hostPath] = "missing"

SocketError == "[FC] Firecracker socket did not appear"

\* C14: the socket error is raised only past the 5 s deadline and after the
\* spawned subprocess has been killed; the run then makes no control call,
\* never enters the live map, returns an error result and leaves no
\* subprocess, TAP device, disk image or socket behind.
C14_SocketTimeoutLeavesNothing ==
  /\ \A p \in Procs :
       /\ pc[p] = "fc_timeout" => frame[p].elapsed > SOCKET_DEADLINE_MS
       /\ pc[p] = "fc_poll" => frame[p].elapsed <= SOCKET_DEADLINE_MS + SOCKET_POLL_MS
       /\ (pc[p] # "idle" /\ frame[p].thrown = SocketError) =>
            /\ frame[p].vmId \notin host.procs
            /\ frame[p].vm = NoVm
            /\ ~Has(activeVMs, frame[p].groupId)
            /\ ~Did(hist[p], "api")
            /\ ~Did(hist[p], "register")
  /\ (Resolved /\ ret.result.output = <<"Error: ", SocketError>>) =>
       /\ ret.result.exitCode # 0
       /\ ~Did(ret.hist, "api")
       /\ ~Did(ret.hist, "register")
       /\ ret.hist.rel["process"] = 1
       /\ TornDown(ret.vmId, ret.groupId)

\* A run whose hypervisor never opened its socket has returned.
C14_Witness ==
  /\ Resolved
  /\ ret.result.output = <<"Error: ", SocketError>>
  /\ {"tap", "rootfs", "process"} \subseteq ret.hist.alloc
  /\ "socket" \notin ret.hist.alloc

\* C15: requests for different owners run in parallel: while a sandbox is
\* live for one owner, a runTask call for another owner is taken up and is
\* not held back until that sandbox has retired.
C15_OtherOwnersNotDelayed ==
  \A i \in 1..Len(activeVMs) :
    calls < MaxCalls =>
      \E p \in Procs, g \in Groups :
        /\ g # activeVMs[i].groupId
        /\ ENABLED Call(p, g, << >>)

\* C16: every runTask invocation eventually returns, whichever of its
\* commands fail or time out; a request waiting for admission is one of them.
C16_EveryInvocationReturns ==
  \A p \in Procs : (pc[p] # "idle") ~> (pc[p] = "idle")

\* A later invocation has been round the socket and readiness loops, ran
\* its task, wrote back and returned.
C16_Witness ==
  /\ Resolved
  /\ calls >= 2
  /\ LogHas(ret.hist, <<"waitForSSH", "ready">>)
  /\ Did(ret.hist, "scp")

\* C17: getActiveVMs returns one status entry per entry of the live map, in
\* order, with its owner, id, ip, startedAt and runtimeMs = now - startedAt,
\* and changes neither the map nor the ID counter nor any resource.
C17_StatusPerLiveEntry ==
  [][obs'.op = "getActiveVMs" =>
       /\ Len(obs'.status) = Len(activeVMs)
       /\ \A i \in 1..Len(activeVMs) :
            /\ obs'.status[i].groupId = activeVMs[i].groupId
            /\ obs'.status[i].vmId = activeVMs[i].vmId
            /\ obs'.status[i].ip = activeVMs[i].ip
            /\ obs'.status[i].startedAt = activeVMs[i].startedAt
            /\ obs'.status[i].runtimeMs = clock - activeVMs[i].startedAt
       /\ UNCHANGED <<activeVMs, nextVmId, host, procKilled, hostFs, clock>>]_vars

\* The status of two live sandboxes started at different times was returned.
C17_Witness ==
  /\ obs.op = "getActiveVMs"
  /\ Len(obs.status) = 2
  /\ obs.status[1].groupId # obs.status[2].groupId
  /\ obs.status[1].runtimeMs # obs.status[2].runtimeMs
  /\ obs.status[1].startedAt > 0

\* C18: when cleanupAll returns the live map is empty and the hypervisor
\* process, TAP device, disk image and socket of every sandbox that was
\* registered when it was called are gone: none is skipped.
C18_CleanupAllDrains ==
  [][obs'.op = "cleanupAll" =>
       /\ activeVMs' = << >>
       /\ \A i \in 1..Len(activeVMs) :
            /\ activeVMs[i].process \notin host'.procs
            /\ activeVMs[i].tapDevice \notin host'.taps
            /\ activeVMs[i].rootfsPath \notin host'.files
            /\ activeVMs[i].socketPath \notin host'.files]_vars

\* cleanupAll has returned after being called with two running sandboxes.
C18_Witness ==
  /\ obs.op = "cleanupAll"
  /\ obs.size = 2
  /\ Cardinality(procKilled) = 2
  /\ activeVMs = << >>
  /\ host = EmptyHost

\* The mounts with which runTask was called.
Passed(p) == frame[p].mounts

\* C19 as stated: every mount of the list that runContainerAgent passes to
\* runTask was returned by the validator for that group.
C19_EveryMountValidated ==
  \A p \in Procs : pc[p] # "idle" =>
    \A i \in 1..Len(Passed(p)) :
      \E j \in 1..Len(orch.validated) : Passed(p)[i] = AsMount(orch.validated[j])

\* C19 as amended: the list passed to runTask is the mounts buildMounts
\* adds on its own (project root for main, the group folder, the global
\* folder read-only for others) followed by exactly the mounts the validator
\* returned, in its order; no requested mount is passed without its approval.
C19_AdditionalMountsValidated ==
  \A p \in Procs : pc[p] # "idle" =>
    LET own == Len(Passed(p)) - Len(orch.validated) IN
    /\ own \in 1..2
    /\ \A i \in 1..own :
         Passed(p)[i].hostPath \in {PROJECT_ROOT, GroupDir(orch.group.folder), GlobalDir}
    /\ \A j \in 1..Len(orch.validated) :
         Passed(p)[own + j] = AsMount(orch.validated[j])
    /\ ~orch.group.additionalMounts.given => orch.validated = << >>

\* runTask was called for a group that asked for two mounts, of which the
\* validator dropped one and made the other read-only.
C19_Witness ==
  \E p \in Procs :
    /\ pc[p] # "idle"
    /\ orch.stage = "built"
    /\ orch.group.additionalMounts = Asked(<<ReqProj, ReqEtc>>)
    /\ orch.validated = <<[ReqProj EXCEPT !.readonly = TRUE]>>
    /\ Len(Passed(p)) = 3

\* C20: a task whose captured output exceeds the byte budget makes runTask
\* report an error: it never returns exitCode 0 with the truncated output.
C20_OverflowIsAnError ==
  (Resolved /\ LogHas(ret.hist, <<"execute", "overflow">>)) =>
    ret.result.exitCode # 0

\* The labels of the finally clause of runTask.
TeardownLabels ==
  {"cl_kill", "cl_tap", "cl_rootfs", "cl_socket", "cl_delete",
   "pc_tap", "pc_rootfs", "pc_socket", "settle"}

\* C21: a teardown step that fails never raises out of runTask: the steps
\* after it still run (each release once, and the owner leaves the live
\* map), and runTask resolves with the result that the try or the catch
\* clause built before the teardown began.
C21_TeardownFailuresSwallowed ==
  /\ [](/\ ret.kind # "rejected"
        /\ \A p \in Procs : pc[p] # "escaped"
        /\ (Resolved /\ Did(ret.hist, "register")) =>
             /\ \A k \in Kinds : ret.hist.rel[k] = 1
             /\ ~Has(activeVMs, ret.groupId)
        /\ (Resolved /\ ~Did(ret.hist, "register")) =>
             \A k \in FaultKinds : ret.hist.rel[k] = 1)
  /\ [][\A p \in Procs :
          (pc[p] = "finally" \/ pc[p] \in TeardownLabels) =>
            IF pc'[p] = "idle"
              THEN ret'.kind = "resolved" /\ ret'.result = frame[p].result
              ELSE /\ pc'[p] \in TeardownLabels
                   /\ frame'[p].result = frame[p].result]_vars

\* A run whose task succeeded has returned its result although the host
\* refused to remove the TAP device, which is still there: the image and
\* the socket were removed after it and the owner left the live map.
C21_Witness ==
  /\ Resolved
  /\ Did(ret.hist, "register")
  /\ "tap" \in host.stuck
  /\ "rootfs" \notin host.stuck
  /\ TapName(ret.vmId) \in host.taps
  /\ RootfsPath(ret.vmId) \notin host.files
  /\ ret.result.exitCode = 0
  /\ ~Has(activeVMs, ret.groupId)

\* The position of the first entry of a log with this head, 0 when none.
FirstOf(h, head) ==
  IF Did(h, head)
    THEN CHOOSE i \in 1..Len(h.log) :
           /\ h.log[i][1] = head
           /\ \A j \in 1..(i - 1) : h.log[j][1] # head
    ELSE 0

BootError == "Command failed: curl"

\* C24: the control calls are issued in the order 1..5, and a call that
\* fails, by a transport error or by the control plane refusing it, is the
\* last one: the run makes no later call, skips readiness, execution,
\* change detection and write-back, returns an error result and is torn down.
C24_FailedControlCallAborts ==
  /\ \A p \in Procs : pc[p] = "boot" =>
       \A i \in 1..(frame[p].idx - 1) : LogHas(hist[p], <<"api", i>>)
  /\ (Resolved /\ (Did(ret.hist, "rejected") \/ ret.result.output = <<"Error: ", BootError>>)) =>
       /\ \A i \in 1..Len(ret.hist.log) :
            i > FirstOf(ret.hist, "rejected") /\ Did(ret.hist, "rejected") =>
              ret.hist.log[i][1] = "release"
       /\ ~Did(ret.hist, "waitForSSH")
       /\ ~Did(ret.hist, "execute")
       /\ ~Did(ret.hist, "scp")
       /\ ret.result.exitCode # 0
       /\ ret.result.output = <<"Error: ", BootError>>
       /\ TornDown(ret.vmId, ret.groupId)

\* The place of a noted step in the sequence of runTask: ID allocation, TAP
\* device, staging, hypervisor start, registration, boot configuration,
\* readiness, execution, change detection, write-back, teardown.
Rank(e) ==
  CASE e[1] = "allocateVm" -> 1
    [] e[1] \in {"createTapDevice", "tap"} -> 2
    [] e[1] \in {"prepareRootfs", "mount", "inject"} -> 3
    [] e[1] = "startFirecrackerProcess" -> 4
    [] e[1] = "register" -> 5
    [] e[1] \in {"api", "rejected"} -> 6
    [] e[1] = "waitForSSH" -> 7
    [] e[1] \in {"upload", "execute"} -> 8
    [] e[1] = "getChangedFiles" -> 9
    [] e[1] = "scp" -> 10
    [] e[1] = "release" -> 11

\* The steps of a log are in the order of the sequence, each is there only
\* when the step before it ran and returned without raising, and nothing
\* but teardown follows the first release.
InOrder(h) ==
  /\ \A i, j \in 1..Len(h.log) : i < j => Rank(h.log[i]) <= Rank(h.log[j])
  /\ \A i, j \in 1..Len(h.log) :
       (i # j /\ h.log[i][1] = h.log[j][1]) =>
         h.log[i][1] \in {"tap", "api", "waitForSSH", "scp", "release"}
  /\ Len(h.log) > 0 => h.log[1] = <<"allocateVm">>
  /\ Did(h, "tap") => Did(h, "createTapDevice") /\ "tap" \in h.alloc
  /\ LogHas(h, <<"tap", "master">>) => LogHas(h, <<"tap", "up">>)
  /\ Did(h, "prepareRootfs") => LogHas(h, <<"tap", "master">>)
  /\ Did(h, "mount") => "rootfs" \in h.alloc
  /\ Did(h, "inject") => LogHas(h, <<"mount", TRUE>>)
  /\ Did(h, "startFirecrackerProcess") => LogHas(h, <<"inject", TRUE>>)
  /\ Did(h, "register") => Did(h, "startFirecrackerProcess") /\ "socket" \in h.alloc
  /\ Did(h, "api") => Did(h, "register")
  /\ \A i \in 2..BOOT_CALLS : LogHas(h, <<"api", i>>) => LogHas(h, <<"api", i - 1>>)
  /\ Did(h, "waitForSSH") => LogHas(h, <<"api", BOOT_CALLS>>)
  /\ Did(h, "upload") => LogHas(h, <<"waitForSSH", "ready">>)
  /\ Did(h, "execute") => LogHas(h, <<"upload", "ok">>)
  /\ Did(h, "getChangedFiles") => Did(h, "upload")
  /\ Did(h, "scp") => Did(h, "getChangedFiles")

ReleasedAt(l) ==
  CASE l = "cl_kill" -> {}
    [] l = "cl_tap" -> {"process"}
    [] l = "cl_rootfs" -> {"process", "tap"}
    [] l = "cl_socket" -> {"process", "tap", "rootfs"}
    [] l = "cl_delete" -> Kinds

\* C23: the teardown of a registered sandbox kills the hypervisor, destroys
\* the TAP device, deletes the image, deletes the socket and then removes
\* the owner from the live map, in that order: while a release is still to
\* come the owner is in the map, and it is out of it once the last is done.
C23_TeardownOrder ==
  /\ \A p \in Procs :
       /\ pc[p] \in {"cl_kill", "cl_tap", "cl_rootfs", "cl_socket", "cl_delete"} =>
            /\ Has(activeVMs, frame[p].groupId)
            /\ Get(activeVMs, frame[p].groupId) = frame[p].vm
            /\ \A k \in Kinds :
                 hist[p].rel[k] = IF k \in ReleasedAt(pc[p]) THEN 1 ELSE 0
       /\ (pc[p] = "settle" /\ frame[p].vm # NoVm) =>
            /\ ~Has(activeVMs, frame[p].groupId)
            /\ \A k \in Kinds : hist[p].rel[k] = 1
  /\ (Resolved /\ Did(ret.hist, "register")) =>
       LET n == Len(ret.hist.log) IN
         /\ n >= 4
         /\ ret.hist.log[n - 3] = <<"release", "process">>
         /\ ret.hist.log[n - 2] = <<"release", "tap">>
         /\ ret.hist.log[n - 1] = <<"release", "rootfs">>
         /\ ret.hist.log[n] = <<"release", "socket">>
         /\ ~LogHas([log |-> SubSeq(ret.hist.log, 1, n - 4)], <<"release", "process">>)

\* The teardown of a sandbox whose task ran has released the four resources
\* and is about to remove the owner, who is still in the live map.
C23_Witness ==
  \E p \in Procs :
    /\ pc[p] = "cl_delete"
    /\ Has(activeVMs, frame[p].groupId)
    /\ Did(hist[p], "execute")
    /\ \A k \in Kinds : hist[p].rel[k] = 1
    /\ TapName(frame[p].vmId) \notin host.taps
    /\ frame[p].vmId \notin host.procs

TapError == "[FC] Failed to create TAP device"

\* C25: createTapDevice creates the device, brings it up and attaches it to
\* the bridge, in that order; when one of the three fails the run stages
\* nothing, starts no hypervisor, makes no control call and returns an error
\* result, and the device, created or not, does not exist at the return.
C25_TapFailureAborts ==
  /\ \A p \in Procs :
       /\ pc[p] = "tap_up" =>
            TapName(frame[p].vmId) \in host.taps /\ ~Did(hist[p], "tap")
       /\ pc[p] = "tap_master" =>
            /\ TapName(frame[p].vmId) \in host.taps
            /\ LogHas(hist[p], <<"tap", "up">>)
            /\ ~LogHas(hist[p], <<"tap", "master">>)
       /\ (pc[p] # "idle" /\ frame[p].thrown = TapError) =>
            /\ ~Did(hist[p], "prepareRootfs")
            /\ ~Did(hist[p], "startFirecrackerProcess")
            /\ ~Did(hist[p], "api")
            /\ frame[p].vm = NoVm
  /\ Resolved =>
       /\ ~Did(ret.hist, "prepareRootfs") <=> ret.result.output = <<"Error: ", TapError>>
       /\ ret.result.output = <<"Error: ", TapError>> =>
            /\ ret.result.exitCode # 0
            /\ ret.hist.alloc \subseteq {"tap"}
            /\ ~Did(ret.hist, "startFirecrackerProcess")
            /\ ~Did(ret.hist, "api")
            /\ TapName(ret.vmId) \notin host.taps
            /\ host.procs = {}

\* A run has returned whose device was created and brought up and could not
\* be attached to the bridge.
C25_Witness ==
  /\ Resolved
  /\ ret.result.output = <<"Error: ", TapError>>
  /\ "tap" \in ret.hist.alloc
  /\ LogHas(ret.hist, <<"tap", "master">>)
  /\ ret.hist.rel["tap"] = 1

StagingErrors ==
  {"Command failed: cp", "Command failed: sudo mount", "Command failed: inject"}

Writable(ms) == {i \in 1..Len(ms) : ~ms[i].readOnly}

\* The exit code and output that runTask returns are those that
\* executeTaskViaSSH handed back.
ResultOfExecution(r) ==
  /\ r.result.exitCode = r.exitCode
  /\ r.result.output = r.stdout

\* C27: when the write-back of a writable mount fails, the write-back of
\* every writable mount after it in the list is still attempted, in list
\* order, and the exit code and output returned are those of the task
\* execution.
C27_WriteBackFailureTolerated ==
  /\ \A p \in Procs : pc[p] = "sync" =>
       /\ frame[p].thrown = ""
       /\ \A i \in Writable(frame[p].mounts) :
            ScpTried(hist[p], i) <=> i < frame[p].idx
  /\ (Resolved /\ Did(ret.hist, "getChangedFiles")) =>
       /\ \A i \in Writable(ret.mounts) : ScpTried(ret.hist, i)
       /\ \A a, b \in 1..Len(ret.hist.log) :
            (a < b /\ ret.hist.log[a][1] = "scp" /\ ret.hist.log[b][1] = "scp") =>
              ret.hist.log[a][2] < ret.hist.log[b][2]
       /\ ResultOfExecution(ret)
       /\ LogHas(ret.hist, <<"execute", "ok">>) =>
            ret.result.exitCode = 0 /\ ret.result.output = <<"task stdout">>
       /\ LogHas(ret.hist, <<"execute", "exit">>) =>
            ret.result.exitCode = 2
              /\ ret.result.output = <<"task stdout", "\n", "task stderr">>

\* A run has returned exit code 0 and the output of its task although the
\* write-back of its first writable mount failed; the next was copied.
C27_Witness ==
  /\ Resolved
  /\ LogHas(ret.hist, <<"execute", "ok">>)
  /\ LogHas(ret.hist, <<"scp", 2, FALSE>>)
  /\ LogHas(ret.hist, <<"scp", 3, TRUE>>)
  /\ ret.result.exitCode = 0
  /\ ret.result.output = <<"task stdout">>

\* C28: when changed-file detection fails or times out, filesChanged is the
\* empty list, the exit code and output returned are those of the task
\* execution, and the write-back of every writable mount is still attempted
\* after it.
C28_ChangeDetectionFailureTolerated ==
  /\ \A p \in Procs :
       (pc[p] = "sync" /\ LogHas(hist[p], <<"getChangedFiles", "failed">>)) =>
         frame[p].filesChanged = << >> /\ frame[p].thrown = ""
  /\ (Resolved /\ LogHas(ret.hist, <<"getChangedFiles", "failed">>)) =>
       /\ ret.result.filesChanged = << >>
       /\ ResultOfExecution(ret)
       /\ LogHas(ret.hist, <<"execute", "ok">>) =>
            ret.result.exitCode = 0 /\ ret.result.output = <<"task stdout">>
       /\ LogHas(ret.hist, <<"execute", "exit">>) => ret.result.exitCode = 2
       /\ \A i \in Writable(ret.mounts) :
            \E k \in 1..Len(ret.hist.log) :
              /\ ret.hist.log[k][1] = "scp"
              /\ ret.hist.log[k][2] = i
              /\ k > FirstOf(ret.hist, "getChangedFiles")

\* A run has returned the result of its task, with no changed files,
\* after a failed change detection, and its last mount was written back.
C28_Witness ==
  /\ Resolved
  /\ LogHas(ret.hist, <<"getChangedFiles", "failed">>)
  /\ LogHas(ret.hist, <<"execute", "ok">>)
  /\ LogHas(ret.hist, <<"scp", 3, TRUE>>)
  /\ ret.result.exitCode = 0
  /\ ret.result.filesChanged = << >>
  /\ hostFs[MountSrc.hostPath] = "v2"

\* The names derived from a sandbox ID.
NamesOf(vmId) ==
  [tap |-> TapName(vmId), rootfs |-> RootfsPath(vmId),
   socket |-> SocketPath(vmId), mac |-> GenerateMac(vmId)]

\* C29: the TAP device name, image path, socket path and MAC address
\* derived from the IDs 1..253 are pairwise distinct, so are those of the
\* sandboxes created in one process run, and every device, image, socket
\* and hypervisor process on the host is the one named by the ID of the
\* invocation that is running: no invocation works on another's.
C29_DerivedNamesDistinct ==
  /\ calls = 0 =>
       \A f \in {"tap", "rootfs", "socket", "mac"} :
         Cardinality({NamesOf(id)[f] : id \in 1..MAX_VM_ID}) = MAX_VM_ID
  /\ \A i, j \in 1..Len(issued) : i # j =>
       \A f \in {"tap", "rootfs", "socket", "mac"} :
         NamesOf(issued[i])[f] # NamesOf(issued[j])[f]
  /\ LET running == {frame[p].vmId : p \in {q \in Procs : InFlight(q)}} IN
       /\ host.taps \subseteq {TapName(id) : id \in running}
       /\ host.files \subseteq {RootfsPath(id) : id \in running}
                                \cup {SocketPath(id) : id \in running}
       /\ host.procs \subseteq running
       /\ \A i \in 1..Len(activeVMs) :
            /\ activeVMs[i].vmId \in running
            /\ activeVMs[i].tapDevice = TapName(activeVMs[i].vmId)
            /\ activeVMs[i].rootfsPath = RootfsPath(activeVMs[i].vmId)
            /\ activeVMs[i].socketPath = SocketPath(activeVMs[i].vmId)

\* The third sandbox of a process run has its image and device on the host
\* and is being booted.
C29_Witness ==
  \E p \in Procs :
    /\ pc[p] = "boot"
    /\ frame[p].idx = 3
    /\ Len(issued) = 3
    /\ frame[p].vmId = issued[3]
    /\ RootfsPath(issued[3]) \in host.files
    /\ TapName(issued[3]) \in host.taps

\* The lifecycle state of an owner.  Running: the owner has an entry in
\* the live map.  Retiring: it has none and a runTask of the owner is in its
\* finally clause.  Admitting: it has none and a runTask of the owner has
\* been called and is not yet in its finally clause.  Idle: otherwise.
OwnerState(g) ==
  IF Has(activeVMs, g) THEN "Running"
  ELSE IF \E p \in Procs : /\ frame[p].groupId = g
                            /\ pc[p] \in {"finally", "escaped"} \cup TeardownLabels
         THEN "Retiring"
  ELSE IF \E p \in Procs : frame[p].groupId = g /\ pc[p] # "idle"
         THEN "Admitting"
  ELSE "Idle"

\* The changes of state of the cycle Idle, Admitting, Running, Retiring.
Cycle ==
  { <<"Idle", "Admitting">>, <<"Admitting", "Running">>,
    <<"Running", "Retiring">>, <<"Retiring", "Idle">> }

\* A runTask of owner g returns in this step.
Returns(g) ==
  \E p \in Procs : frame[p].groupId = g /\ pc[p] # "idle" /\ pc'[p] = "idle"

\* C30 as stated: each owner's lifecycle state changes only along Idle ->
\* Admitting -> Running -> Retiring -> Idle.
C30_OwnerCycleOnly ==
  [][\A g \in Groups :
       OwnerState(g)' # OwnerState(g) =>
         <<OwnerState(g), OwnerState(g)'>> \in Cycle]_vars

\* C30: each owner's lifecycle state changes only along Idle -> Admitting
\* -> Running -> Retiring -> Idle, or from Admitting to Retiring when a
\* step before the registration failed, or from Admitting to Idle when
\* allocateVm raised the capacity error and runTask rejected; an owner
\* whose runTask returns is Idle, and an owner never becomes Running twice
\* without passing through Idle.
C30_OwnerLifecycle ==
  [][\A g \in Groups :
       /\ OwnerState(g)' # OwnerState(g) =>
            \/ <<OwnerState(g), OwnerState(g)'>> \in Cycle
            \/ /\ OwnerState(g) = "Admitting"
               /\ OwnerState(g)' = "Retiring"
               /\ \E p \in Procs : /\ frame[p].groupId = g
                                    /\ pc[p] = "catch"
                                    /\ ~Did(hist[p], "register")
            \/ /\ OwnerState(g) = "Admitting"
               /\ OwnerState(g)' = "Idle"
               /\ \E p \in Procs : frame[p].groupId = g /\ pc[p] = "alloc"
               /\ ret'.kind = "rejected"
       /\ Returns(g) => OwnerState(g)' = "Idle"]_vars

\* An owner whose runTask, not the first call of the process run, failed
\* before the registration: it went from Admitting to Retiring without
\* being Running, its TAP device was released, and it is Idle again.
C30_Witness ==
  /\ Resolved
  /\ ~Did(ret.hist, "register")
  /\ ret.hist.rel["tap"] = 1
  /\ OwnerState(ret.groupId) = "Idle"
  /\ calls >= 2

\* The entries of the live map that are gone after this step.
Removed == {activeVMs[i] : i \in 1..Len(activeVMs)}
             \ {activeVMs'[i] : i \in 1..Len(activeVMs')}

\* C31: the teardown of a runTask invocation removes from the live map only
\* the entry that this invocation registered: an entry that leaves the map
\* in a step of the finally clause of runTask is the MicroVM record of the
\* invocation that takes the step.
C31_TeardownDeletesOwnEntryOnly ==
  [][\A p \in Procs :
       (pc[p] \in {"finally"} \cup TeardownLabels /\ pc'[p] # pc[p]) =>
         \A e \in Removed : e = frame[p].vm]_vars

\* A second sandbox of the process run is registered for an owner whose
\* first sandbox has been torn down, and its runTask is about to delete its
\* entry.
C31_Witness ==
  \E p \in Procs :
    /\ pc[p] = "cl_delete"
    /\ Len(issued) >= 2
    /\ Has(activeVMs, frame[p].groupId)
    /\ Get(activeVMs, frame[p].groupId) = frame[p].vm
    /\ frame[p].vm.vmId = issued[Len(issued)]

\* C32: runTask is not suspended between allocateVm and the end of its
\* finally clause, so whenever the JavaScript thread is free the live map is
\* empty: getActiveVMs returns the empty list, killVM finds no sandbox, and
\* no invocation is ever in the admission wait loop.
C32_MapEmptyWhenThreadFree ==
  /\ \A p \in Procs :
       pc[p] \notin {"idle", "admit", "wait"} => cur = p
  /\ cur = None => activeVMs = << >>
  /\ obs.op = "getActiveVMs" => obs.status = << >>
  /\ obs.op = "killVM" => ~obs.found
  /\ obs.op = "cleanupAll" => obs.size = 0
  /\ \A p \in Procs : pc[p] # "wait"

\* killVM is called after a runTask that was given a sandbox ID has
\* returned.
C32_Witness ==
  /\ obs.op = "killVM"
  /\ issued # << >>
  /\ nextVmId > issued[Len(issued)]
  /\ calls >= 1

\* The sandbox with this ID has a TAP device, a disk image or a hypervisor
\* subprocess on the host.
HasResources(id) ==
  \/ TapName(id) \in host.taps
  \/ RootfsPath(id) \in host.files
  \/ id \in host.procs

\* The sandbox with this ID has an entry in the live map.
Registered(id) == \E i \in 1..Len(activeVMs) : activeVMs[i].vmId = id

CapacityError == "[FC] Maximum VM count exceeded (253 concurrent VMs)"

\* C34: the ID of a retired sandbox becomes available again, so a runTask
\* issued while fewer than 253 sandboxes are live is never refused with the
\* capacity error, however many runs have completed before it.
C34_NoCapacityErrorBelowLimit ==
  (ret.kind = "rejected" /\ ret.error = CapacityError) =>
    Len(activeVMs) >= MAX_VM_ID

TaskTimedOut == <<"Error: ", "[FC] Task timed out">>

\* C35: runTask returns the 'Task timed out' error only when the task
\* command itself outlived timeoutMs: a run whose payload upload ended on
\* its own 5 s timeout does not return that error.
C35_UploadTimeoutNotTaskTimeout ==
  Resolved =>
    /\ ret.result.output = TaskTimedOut =>
         LogHas(ret.hist, <<"execute", "timeout">>)
    /\ LogHas(ret.hist, <<"upload", "timeout">>) =>
         /\ ret.result.output # TaskTimedOut
         /\ ~Did(ret.hist, "execute")

\* The payload upload timed out and runTask has returned.
C35_Witness ==
  /\ Resolved
  /\ LogHas(ret.hist, <<"upload", "timeout">>)
  /\ ret.result.exitCode = 1

\* C36: change detection and write-back happen only when the task entry
\* script was run in the guest: a run whose payload upload failed detects
\* no changed files and copies no guest path back to the host.
C36_NoWriteBackWithoutExecution ==
  (Resolved /\ Did(ret.hist, "upload") /\ ~Did(ret.hist, "execute")) =>
    /\ ~Did(ret.hist, "getChangedFiles")
    /\ ~Did(ret.hist, "scp")

\* The output up to its first completion marker, the whole output when it
\* has none.
BeforeMarker(s) ==
  IF Includes(s, Marker) THEN SubSeq(s, 1, IndexOf(s, Marker)) ELSE s

\* runTask failed in the sense of line 756, or rejected.
RunFailed(task) ==
  \/ task.kind = "rejected"
  \/ task.exitCode # 0 /\ ~Includes(task.output, Marker)

\* C37 as stated: runContainerAgent returns status 'error' exactly when
\* runTask rejects or its result has a non-zero exit code and no marker;
\* otherwise it returns 'success' with the trimmed output before the first
\* marker (null when empty) and the input's sessionId.
C37_AgentAnswerTrimmed ==
  orch.stage = "returned" =>
    /\ orch.out.status = "error" <=> RunFailed(orch.task)
    /\ orch.out.status # "error" =>
         /\ orch.out.status = "success"
         /\ orch.out.result = OrNull(Trim(BeforeMarker(orch.task.output)))
         /\ orch.out.newSessionId = orch.sessionId

\* C37: runContainerAgent returns status 'error' exactly when runTask
\* rejects, or its result has a non-zero exit code and an output without
\* the marker, or the run log cannot be written; otherwise it returns
\* 'success' with the input's sessionId and, as result, the trimmed output
\* before the first marker when the output has a marker and the whole
\* output as it is when it has none (null when that string is empty).  It
\* returns a value whatever runTask settled with.
C37_AgentAnswer ==
  orch.stage = "returned" =>
    /\ orch.out.status \in {"error", "success"}
    /\ orch.out.status = "error" <=> (RunFailed(orch.task) \/ ~orch.logWritten)
    /\ orch.out.status = "error" => orch.out.result = NullResult
    /\ orch.out.status = "success" =>
         /\ orch.out.newSessionId = orch.sessionId
         /\ orch.out.result =
              IF Includes(orch.task.output, Marker)
                THEN OrNull(Trim(BeforeMarker(orch.task.output)))
                ELSE OrNull(orch.task.output)

\* A run that ended with a non-zero exit code after printing the marker is
\* answered with 'success' and the trimmed text before the marker.
C37_Witness ==
  /\ orch.stage = "returned"
  /\ orch.task.kind = "resolved"
  /\ orch.task.exitCode = 2
  /\ orch.task.output = <<" ", "a", Marker>>
  /\ orch.out.status = "success"
  /\ orch.out.result = [null |-> FALSE, text |-> <<"a">>]

\* The host paths onto which syncFilesBack copies a guest path (line 428
\* skips the read-only mounts).
WrittenBack(mounts) ==
  {mounts[i].hostPath : i \in {j \in 1..Len(mounts) : ~SkipsWriteBack(mounts[j])}}

Protected == {PROJECT_ROOT, GlobalDir}

====
